---- MODULE Spec2Model ----
(***************************************************************************)
(* Realm orchestration of citadel-tools: the D-Bus boundary (realmsd),     *)
(* the systemd bridge (Systemd::start_realm / stop_realm), the launcher    *)
(* that writes the two descriptors, and the network allocator they share.  *)
(*                                                                         *)
(* Threads: the single message loop of DbusServer::start, and one worker   *)
(* thread per dispatched Start / Stop / Terminal / Run (thread::spawn in   *)
(* do_start, do_stop, do_terminal, do_run).  A worker is modelled by its   *)
(* position (pc) in the code it runs.  Events the manager emits are        *)
(* handled by EventHandler on the thread that emitted them.                *)
(***************************************************************************)
EXTENDS Integers, Sequences, FiniteSets, TLC

\* ------------------------------------------------------------------ bounds
PoolSize == 3           \* addresses of the zone's pool, the gateway included
NumDirs == 1            \* entries of ephemeral_persistent_dirs
MaxRequests == 3        \* requests the message loop takes in one run
MaxFaults == 1          \* host failures in one run
MaxEvents == 2          \* events an independent event source emits in one run
MaxCalls == 3           \* calls a direct caller makes of the allocator
MaxPieces == 3          \* pieces a file name or a version string is made of
MaxBinds == 2           \* entries of extra_bindmounts, and of extra_bindmounts_ro

\* The realms of the manager's collection, and the worker threads that can be
\* alive at the same time.
Realms == {"work", "other"}
Workers == {"t1", "t2"}
NoRealm == ""
\* The names a request can carry: the realms, and one name of no realm.
Names == Realms \cup {"ghost"}
\* Option<T>
None == <<>>
Some(x) == <<x>>
NoThread == ""
Pool == 1..PoolSize
Dirs == 1..NumDirs

\* ------------------------------------------------------- realm definitions
\* RealmConfig, as far as start / stop read it.  reserved_ip = 0 is None, and
\* has_netns says whether netns is Some.
ZoneClear == "clear"
ZoneMissing == "nozone"

\* A realm that is granted no device, no shared directory and no bind mount
\* of its own.
NoGrants ==
    [kvm |-> FALSE, gpu |-> FALSE, gpu_card0 |-> FALSE, shared_dir |-> FALSE,
     extra_bindmounts |-> <<>>, extra_bindmounts_ro |-> <<>>]

\* The record with the fields of both.
With(a, b) ==
    [f \in DOMAIN a \cup DOMAIN b |-> IF f \in DOMAIN b THEN b[f] ELSE a[f]]

ConfigDynamic ==
    With(NoGrants,
         [network |-> TRUE, has_netns |-> FALSE, reserved_ip |-> 0,
          network_zone |-> ZoneClear, ephemeral_home |-> FALSE])
ConfigEphemeral ==
    With(NoGrants,
         [network |-> TRUE, has_netns |-> FALSE, reserved_ip |-> 0,
          network_zone |-> ZoneClear, ephemeral_home |-> TRUE])
ConfigReserved ==
    With(NoGrants,
         [network |-> TRUE, has_netns |-> FALSE, reserved_ip |-> 2,
          network_zone |-> ZoneClear, ephemeral_home |-> FALSE])
ConfigPrivate ==
    With(NoGrants,
         [network |-> FALSE, has_netns |-> FALSE, reserved_ip |-> 0,
          network_zone |-> ZoneClear, ephemeral_home |-> FALSE])
ConfigNetns ==
    With(NoGrants,
         [network |-> TRUE, has_netns |-> TRUE, reserved_ip |-> 0,
          network_zone |-> ZoneClear, ephemeral_home |-> FALSE])
ConfigNoZone ==
    With(NoGrants,
         [network |-> TRUE, has_netns |-> FALSE, reserved_ip |-> 0,
          network_zone |-> ZoneMissing, ephemeral_home |-> FALSE])

\* Realms with device grants, for each way of taking part in the network.
ConfigKvmShared ==
    With(ConfigDynamic, [kvm |-> TRUE, shared_dir |-> TRUE])
ConfigGpuPrivate ==
    With(ConfigPrivate, [gpu |-> TRUE])
ConfigGpuCardNetns ==
    With(ConfigNetns, [gpu |-> TRUE, gpu_card0 |-> TRUE])
ConfigCardReserved ==
    With(ConfigReserved, [gpu_card0 |-> TRUE])
ConfigNetnsNoNetwork ==
    With(ConfigPrivate, [has_netns |-> TRUE, kvm |-> TRUE])

VARIABLES
    config,         \* realm -> RealmConfig (fixed once the manager has loaded)
    allocations,    \* zone table: realm -> address held (0: none)
    allocated,      \* zone table: the set of addresses in use
    lock,           \* Systemd.network mutex: NoThread or the worker holding it
    nspawn,         \* realm -> content of /run/systemd/nspawn/<realm>.nspawn
    service,        \* realm -> content of /run/systemd/system/realm-<realm>.service
    active,         \* realm -> the supervisor reports the unit active
    current,        \* the current realm, NoRealm for none
    worker,         \* worker thread -> its operation and position
    main,           \* the message loop: idle, or inside do_set_current
    handled,        \* requests the message loop has taken so far
    faults,         \* host events so far (failed writes, removals, commands;
                    \* paths that appear or disappear)
    reply,          \* the last reply the message loop sent, and to what
    handlers,       \* the manager has an event handler registered
    events,         \* the events the manager emitted, in the order of emission
    signals,        \* the messages given to Connection::send, in that order
    host,           \* the paths that exist on the host, of those the launcher probes
    call,           \* the last call a direct caller made of the allocator
    entry,          \* citadel-tool: the boot entry at hand, its file name, its parse
    versions        \* citadel-tool: the kernel version strings at hand, parsed or not

vars == <<config, allocations, allocated, lock, nspawn, service, active,
          current, worker, main, handled, faults, reply, handlers, events,
          signals, host, call, entry, versions>>

\* What the steps that neither reply nor emit leave alone.
boundary == <<reply, handlers, events, signals, host, call, entry, versions>>

\* --------------------------------------------------------------- helpers
Min(S) == CHOOSE x \in S : \A y \in S : x <= y

Append1(w, step) == Append(worker[w].steps, step)

\* The host makes a step fail (a write, a removal, a command): counted.
HostFault(failed) ==
    IF failed THEN faults < MaxFaults /\ faults' = faults + 1
    ELSE faults' = faults

\* A worker thread that runs nothing.  Beside its position (pc) and locals
\* (addr, dir, the launcher's devices, the shared directory's presence) a
\* running worker keeps what it has seen and done: the paths that existed when
\* its launcher probed the host, the zone's table it was allocated from, the address
\* its realm held before (held), the supervisor's exit, the steps it performed,
\* the step it failed at, and whether another operation on the same realm was
\* in flight at any time while it ran (overlap).
Idle ==
    [op |-> "idle", realm |-> NoRealm, pc |-> "idle", addr |-> 0, dir |-> 0,
     held |-> 0, exit |-> "none", result |-> "none", failed |-> "",
     steps |-> <<>>, overlap |-> FALSE, ev |-> 0,
     devices |-> <<>>, shared |-> FALSE, probed |-> {}, table |-> <<>>]

\* The operations whose closure calls RealmManager::start_realm.
StartOps == {"start", "terminal", "run"}

\* (mutant) a closure that goes on to launch after a failed start.
AfterStartErrLaunch(op) == IF op \in {"terminal", "run"} THEN "launch" ELSE "done"

\* do_terminal / do_run: `return` when start_realm failed; every closure ends
\* after logging the Err of its last call.
AfterStartErr(op) == "done"

\* Where start_realm's Ok(()) leaves the closure: at its end (do_start), or
\* before launch_terminal / run_in_realm.
AfterStartOk(op) == IF op = "start" THEN "done" ELSE "launch"

\* The thread record after start_realm returned Ok(()).
StartReturnedOk(rec) ==
    [rec EXCEPT !.pc = AfterStartOk(rec.op),
                !.result = IF rec.op = "start" THEN "ok" ELSE rec.result]

\* ------------------------------------------------------------ EventHandler
\* RealmEvent, the realm it carries being Some(name) or None.
Event(kind, realm) == [kind |-> kind, realm |-> realm]

\* (mutant) send_realm_signal names the signal's subject "none" for None.
send_realm_signal_none(sig_name, realm) ==
    [member |-> sig_name, arg |-> IF realm = None THEN "none" ELSE realm[1]]

\* EventHandler::send_realm_signal: the message it builds, its one argument
\* the realm's name or the empty string.
send_realm_signal(sig_name, realm) ==
    [member |-> sig_name, arg |-> IF realm = None THEN "" ELSE realm[1]]

on_started(realm) == send_realm_signal("RealmStarted", Some(realm))
on_stopped(realm) == send_realm_signal("RealmStopped", Some(realm))
on_new(realm) == send_realm_signal("RealmNew", Some(realm))
on_removed(realm) == send_realm_signal("RealmRemoved", Some(realm))
on_current(realm) == send_realm_signal("RealmCurrent", realm)

\* (mutant) handle_event with the arms of Started and Stopped exchanged.
handle_event_swapped(ev) ==
    CASE ev.kind = "Started" -> on_stopped(ev.realm[1])
      [] ev.kind = "Stopped" -> on_started(ev.realm[1])
      [] ev.kind = "New" -> on_new(ev.realm[1])
      [] ev.kind = "Removed" -> on_removed(ev.realm[1])
      [] ev.kind = "Current" -> on_current(ev.realm)

\* EventHandler::handle_event
handle_event(ev) ==
    CASE ev.kind = "Started" -> on_started(ev.realm[1])
      [] ev.kind = "Stopped" -> on_stopped(ev.realm[1])
      [] ev.kind = "New" -> on_new(ev.realm[1])
      [] ev.kind = "Removed" -> on_removed(ev.realm[1])
      [] ev.kind = "Current" -> on_current(ev.realm)

\* The manager emits an event: it is entered in the order of emission, and the
\* emitting thread calls the registered handler with it.
Emit(ev) == events' = Append(events, ev)

\* self.sender.send(msg): the message is given to the connection, which may
\* refuse it (the handler then only logs).  `ev` is the event it was built for.
ConnectionSend(ev, sent) ==
    signals' = Append(signals, [msg |-> handle_event(events[ev]), ev |-> ev,
                                sent |-> sent])

\* Where the handler's return leaves a worker, by the event it handled.
AfterEvent(w) ==
    LET kind == events[worker[w].ev].kind IN
    IF worker[w].op \in StartOps /\ kind = "Started"
        THEN [StartReturnedOk(worker[w]) EXCEPT !.ev = 0]
    ELSE IF worker[w].op = "stop" /\ kind = "Stopped"
        THEN [worker[w] EXCEPT !.pc = "clear_current", !.ev = 0]
    ELSE [worker[w] EXCEPT !.pc = "done", !.result = "ok", !.ev = 0]

\* The handler runs on the worker that emitted the event: handle_event builds
\* the signal and gives it to the connection.
HandleEvent(w) ==
    /\ worker[w].pc = "handle_event"
    /\ \E sent \in BOOLEAN :
        /\ HostFault(~sent)
        /\ ConnectionSend(worker[w].ev, sent)
    /\ worker' = [worker EXCEPT ![w] = AfterEvent(w)]
    /\ UNCHANGED <<config, allocations, allocated, lock, nspawn, service,
                   active, current, main, handled, reply, handlers, host, call, entry, versions, events>>

\* No direct call of the allocator was made.
NoCall ==
    [n |-> 0, op |-> "", zone |-> "", realm |-> NoRealm, addr |-> 0,
     err |-> "", ret |-> 0, prev_op |-> "", prev_realm |-> NoRealm,
     prev_ret |-> 0]

\* A descriptor file that does not exist.
NoFile ==
    [exists |-> FALSE, net |-> "", ip |-> 0, gw |-> 0, netns |-> FALSE,
     home |-> "", shared |-> FALSE, devices |-> <<>>, binds |-> <<>>]

\* The worker returns Err from the step it is at: the closure logs it and ends.
Failed(w) ==
    [worker[w] EXCEPT !.pc = IF worker[w].pc = "launch" THEN "done"
                             ELSE AfterStartErr(worker[w].op),
                      !.result = "err", !.failed = worker[w].pc]

\* -------------------------------------------------------- NetworkAllocator
\* One configured zone ("clear"); its gateway is the first address of the pool.
Gateway == 1

FreeAddresses == {a \in Pool : a # Gateway /\ a \notin allocated}

\* (mutant) allocate_address_for takes a new address for a realm that holds one.
AllocateAddressForAnew(zone, realm) ==
    IF zone # ZoneClear THEN [err |-> "ZoneUnknown", addr |-> 0]
    ELSE IF FreeAddresses = {} THEN [err |-> "PoolExhausted", addr |-> 0]
    ELSE [err |-> "", addr |-> Min(FreeAddresses)]

\* (mutant) allocate_address_for does not skip the gateway.
AllocateAddressForGateway(zone, realm) ==
    IF zone # ZoneClear THEN [err |-> "ZoneUnknown", addr |-> 0]
    ELSE IF allocations[realm] # 0 THEN [err |-> "", addr |-> allocations[realm]]
    ELSE IF Pool \ allocated = {} THEN [err |-> "PoolExhausted", addr |-> 0]
    ELSE [err |-> "", addr |-> Min(Pool \ allocated)]

\* (mutant) allocate_address_for goes round the pool: which free address it
\* gives depends on how many requests were served before.
AllocateAddressForRotating(zone, realm) ==
    IF zone # ZoneClear THEN [err |-> "ZoneUnknown", addr |-> 0]
    ELSE IF allocations[realm] # 0 THEN [err |-> "", addr |-> allocations[realm]]
    ELSE IF FreeAddresses = {} THEN [err |-> "PoolExhausted", addr |-> 0]
    ELSE [err |-> "",
          addr |-> IF handled % 2 = 1 THEN Min(FreeAddresses)
                   ELSE CHOOSE a \in FreeAddresses :
                            \A b \in FreeAddresses : b <= a]

\* allocate_address_for, up to the choice of the address.
AllocateAddressFor(zone, realm) ==
    IF zone # ZoneClear THEN [err |-> "ZoneUnknown", addr |-> 0]
    ELSE IF allocations[realm] # 0 THEN [err |-> "", addr |-> allocations[realm]]
    ELSE IF FreeAddresses = {} THEN [err |-> "PoolExhausted", addr |-> 0]
    ELSE [err |-> "", addr |-> Min(FreeAddresses)]

\* (mutant) allocate_reserved does not look at the addresses in use.
AllocateReservedUnchecked(zone, realm, addr) ==
    IF zone # ZoneClear THEN [err |-> "ZoneUnknown", addr |-> 0]
    ELSE IF addr \notin Pool THEN [err |-> "OutOfRange", addr |-> 0]
    ELSE [err |-> "", addr |-> addr]

\* allocate_reserved, up to the acceptance of the address.
AllocateReserved(zone, realm, addr) ==
    IF zone # ZoneClear THEN [err |-> "ZoneUnknown", addr |-> 0]
    ELSE IF addr \notin Pool THEN [err |-> "OutOfRange", addr |-> 0]
    ELSE IF addr \in allocated /\ allocations[realm] # addr
        THEN [err |-> "AddressInUse", addr |-> 0]
    ELSE [err |-> "", addr |-> addr]

\* The table with the address entered for the realm.
InsertAllocation(realm, addr) ==
    /\ allocations' = [allocations EXCEPT ![realm] = addr]
    /\ allocated' = (allocated \ {allocations[realm]}) \cup {addr}

\* (mutant) free_allocation_for removes the entry and leaves its address in
\* the set of addresses in use.
FreeAllocationForKeepsInUse(zone, realm) ==
    /\ allocations' = [allocations EXCEPT ![realm] = 0]
    /\ UNCHANGED allocated

\* free_allocation_for: the realm's entry removed, nothing to do when absent.
FreeAllocationFor(zone, realm) ==
    IF zone = ZoneClear /\ allocations[realm] # 0
    THEN /\ allocations' = [allocations EXCEPT ![realm] = 0]
         /\ allocated' = allocated \ {allocations[realm]}
    ELSE UNCHANGED <<allocations, allocated>>

\* A caller of the allocator other than start_realm / stop_realm: one call of
\* NetworkConfig, from its entry to its return.  `got` is what it returns.
Called(op, zone, realm, addr, got) ==
    /\ call.n < MaxCalls
    /\ call' = [n |-> call.n + 1, op |-> op, zone |-> zone, realm |-> realm,
                addr |-> addr, err |-> got.err, ret |-> got.addr,
                prev_op |-> call.op, prev_realm |-> call.realm,
                prev_ret |-> call.ret]
    /\ UNCHANGED <<config, lock, nspawn, service, active, current, worker, main,
                   handled, faults, reply, handlers, events, signals, host,
                   entry, versions>>

CallAllocateAddressFor(zone, realm) ==
    LET got == AllocateAddressFor(zone, realm) IN
    /\ lock = NoThread
    /\ Called("allocate_address_for", zone, realm, 0, got)
    /\ IF got.err = "" THEN InsertAllocation(realm, got.addr)
       ELSE UNCHANGED <<allocations, allocated>>

CallAllocateReserved(zone, realm, addr) ==
    LET got == AllocateReserved(zone, realm, addr) IN
    /\ lock = NoThread
    /\ Called("allocate_reserved", zone, realm, addr, got)
    /\ IF got.err = "" THEN InsertAllocation(realm, got.addr)
       ELSE UNCHANGED <<allocations, allocated>>

\* free_allocation_for returns the address it removed (0: there was none).
CallFreeAllocationFor(zone, realm) ==
    /\ lock = NoThread
    /\ Called("free_allocation_for", zone, realm, 0,
              [err |-> "",
               addr |-> IF zone = ZoneClear THEN allocations[realm] ELSE 0])
    /\ FreeAllocationFor(zone, realm)

\* A device node, or the shared directory, appears on the host or disappears
\* from it.
HostChanges(path) ==
    /\ faults < MaxFaults
    /\ faults' = faults + 1
    /\ host' = IF path \in host THEN host \ {path} ELSE host \cup {path}
    /\ UNCHANGED <<config, allocations, allocated, lock, nspawn, service,
                   active, current, worker, main, handled, reply, handlers,
                   events, signals, call, entry, versions>>

\* ------------------------------------------------------------------ Start
\* (mutant) start_realm does not ask whether the realm is running.
StartWithoutCheck(w) ==
    /\ worker[w].op \in StartOps /\ worker[w].pc = "check_active"
    /\ worker' = [worker EXCEPT ![w].pc = "allocate"]
    /\ UNCHANGED <<config, allocations, allocated, lock, nspawn, service,
                   active, current, main, handled, faults,
                   boundary>>

\* RealmManager::start_realm: nothing to do for a realm already running.
StartCheckActive(w) ==
    /\ worker[w].op \in StartOps /\ worker[w].pc = "check_active"
    /\ worker' = [worker EXCEPT ![w] =
            IF active[worker[w].realm]
            THEN StartReturnedOk(@)
            ELSE [@ EXCEPT !.pc = "allocate"]]
    /\ UNCHANGED <<config, allocations, allocated, lock, nspawn, service,
                   active, current, main, handled, faults,
                   boundary>>

\* (mutant) lock() never waits: the mutex excludes nobody.
MutexIgnored == TRUE

\* self.network.lock() returns: no other thread holds the mutex.
MutexFree == lock = NoThread

\* RealmLauncher::generate_network_config: which address the realm asks for.
NetworkRequest(realm) ==
    LET c == config[realm] IN
    IF ~c.network \/ c.has_netns THEN [err |-> "", addr |-> 0]
    ELSE IF c.reserved_ip # 0
        THEN AllocateReserved(c.network_zone, realm, c.reserved_ip)
    ELSE AllocateAddressFor(c.network_zone, realm)

\* The paths whose existence the launcher asks the host for.
DEV_KVM == "/dev/kvm"
DEV_RENDER == "/dev/dri/renderD128"
DEV_CARD0 == "/dev/dri/card0"
SHARED_DIR == "/realms/Shared"
HostPaths == {DEV_KVM, DEV_RENDER, DEV_CARD0, SHARED_DIR}

\* (mutant) add_device pushes the device without asking whether it exists.
add_device_unprobed(devices, device) == Append(devices, device)

\* RealmLauncher::add_device
add_device(devices, device) ==
    IF device \in host THEN Append(devices, device) ELSE devices

\* RealmLauncher::add_devices, on the empty list of a new launcher.
add_devices(realm) ==
    LET c == config[realm]
        kvm == IF c.kvm THEN add_device(<<>>, DEV_KVM) ELSE <<>>
        render == IF c.gpu THEN add_device(kvm, DEV_RENDER) ELSE kvm
    IN IF c.gpu /\ c.gpu_card0 THEN add_device(render, DEV_CARD0) ELSE render

\* generate_extra_bind_mounts: the shared directory is bound when the realm
\* is granted it and it exists on the host.
SharedBind(realm) == config[realm].shared_dir /\ SHARED_DIR \in host

\* write_launch_config_files: the devices are probed when the launcher's list
\* is empty, and the list it has is kept otherwise.
ProbedDevices(devices, realm) ==
    IF devices = <<>> THEN add_devices(realm) ELSE devices

\* Systemd::start_realm takes the mutex (held until the function returns) and
\* write_launch_config_files probes the devices and starts
\* generate_nspawn_file: the bind mounts are rendered, then the allocator reads
\* its table and answers with an address or an error.
GenerateNetworkConfig(w) ==
    /\ worker[w].op \in StartOps /\ worker[w].pc = "allocate"
    /\ MutexFree
    /\ LET got == NetworkRequest(worker[w].realm)
           built == [worker[w] EXCEPT !.devices = ProbedDevices(worker[w].devices,
                                                               worker[w].realm),
                                      !.shared = SharedBind(worker[w].realm),
                                      !.probed = host,
                                      !.table = allocations]
       IN
       IF got.err # ""
       THEN /\ worker' = [worker EXCEPT ![w] =
                    [built EXCEPT !.pc = AfterStartErr(worker[w].op),
                                  !.result = "err", !.failed = worker[w].pc]]
            /\ lock' = NoThread
       ELSE /\ worker' = [worker EXCEPT ![w] =
                    [built EXCEPT !.pc = "insert", !.addr = got.addr,
                                  !.held = allocations[worker[w].realm]]]
            /\ lock' = w
    /\ UNCHANGED <<config, allocations, allocated, nspawn, service, active,
                   current, main, handled, faults,
                   boundary>>

\* ... second half: the allocator enters the address in its table.
RecordAllocation(w) ==
    /\ worker[w].op \in StartOps /\ worker[w].pc = "insert"
    /\ IF worker[w].addr # 0
       THEN InsertAllocation(worker[w].realm, worker[w].addr)
       ELSE UNCHANGED <<allocations, allocated>>
    /\ worker' = [worker EXCEPT ![w].pc = "write_nspawn",
                                ![w].steps = Append1(w, "allocate")]
    /\ UNCHANGED <<config, lock, nspawn, service, active, current, main, handled, faults,
                   boundary>>

\* generate_network_config: the directive of the [Network] section ("zone" for
\* Zone=clear, "private" for Private=true, "" for none).
NetworkDirective(realm) ==
    LET c == config[realm] IN
    IF c.network THEN (IF c.has_netns THEN "" ELSE "zone") ELSE "private"

\* The characters a bind mount of the config is made of; NL is '\n'.  "Bind="
\* and "BindReadOnly=" stand for their characters.
NL == "\n"
BIND == "Bind="
BIND_READ_ONLY == "BindReadOnly="

\* (mutant) every item is taken.
is_valid_bind_item_any(item) == TRUE

\* RealmLauncher::is_valid_bind_item: !item.contains('\n')
is_valid_bind_item(item) == \A i \in 1..Len(item) : item[i] # NL

\* for bind in binds { if valid { writeln!(s, "<key>{}", bind) } }
RECURSIVE WriteBinds(_, _)
WriteBinds(key, binds) ==
    IF binds = <<>> THEN <<>>
    ELSE (IF is_valid_bind_item(Head(binds))
          THEN <<key>> \o Head(binds) \o <<NL>> ELSE <<>>)
         \o WriteBinds(key, Tail(binds))

\* generate_extra_bind_mounts, its last two loops: the text written for
\* extra_bindmounts, then for extra_bindmounts_ro.
ExtraBindMounts(realm) ==
    WriteBinds(BIND, config[realm].extra_bindmounts)
    \o WriteBinds(BIND_READ_ONLY, config[realm].extra_bindmounts_ro)

\* (mutant) generate_network_config writes the gateway as IFCONFIG_IP and the
\* address as IFCONFIG_GW.
NspawnContentSwapped(realm, addr, devices, shared) ==
    [exists |-> TRUE,
     net |-> NetworkDirective(realm),
     ip |-> IF addr # 0 THEN Gateway ELSE 0,
     gw |-> addr,
     netns |-> FALSE,
     home |-> IF config[realm].ephemeral_home THEN "tmpfs" ELSE "bind",
     shared |-> shared,
     devices |-> devices,
     binds |-> ExtraBindMounts(realm)]

\* generate_nspawn_file: what the nspawn file says of the network (directive,
\* IFCONFIG_IP, IFCONFIG_GW), of the home (temporary file system or bind), of
\* the shared directory, and the Bind= lines of the devices, in their order.
NspawnContent(realm, addr, devices, shared) ==
    [exists |-> TRUE,
     net |-> NetworkDirective(realm),
     ip |-> addr,
     gw |-> IF addr # 0 THEN Gateway ELSE 0,
     netns |-> FALSE,
     home |-> IF config[realm].ephemeral_home THEN "tmpfs" ELSE "bind",
     shared |-> shared,
     devices |-> devices,
     binds |-> ExtraBindMounts(realm)]

\* (mutant) generate_service_file writes the DeviceAllow= lines twice.
ServiceContentTwice(realm, devices) ==
    [exists |-> TRUE, net |-> "", ip |-> 0, gw |-> 0,
     netns |-> config[realm].has_netns,
     home |-> "", shared |-> FALSE, devices |-> devices \o devices,
     binds |-> <<>>]

\* generate_service_file: the start command carries the netns argument or not,
\* and there is one DeviceAllow= line per device.
ServiceContent(realm, devices) ==
    [exists |-> TRUE, net |-> "", ip |-> 0, gw |-> 0,
     netns |-> config[realm].has_netns,
     home |-> "", shared |-> FALSE, devices |-> devices, binds |-> <<>>]

\* write_launch_config_files: the nspawn file is written, or the write fails.
WriteNspawnFile(w) ==
    /\ worker[w].op \in StartOps /\ worker[w].pc = "write_nspawn"
    /\ \E ok \in BOOLEAN :
        /\ HostFault(~ok)
        /\ IF ok
           THEN /\ nspawn' = [nspawn EXCEPT ![worker[w].realm] =
                                   NspawnContent(worker[w].realm, worker[w].addr,
                                                 worker[w].devices,
                                                 worker[w].shared)]
                /\ worker' = [worker EXCEPT ![w].pc = "write_service",
                                            ![w].steps = Append1(w, "write_nspawn")]
                /\ UNCHANGED lock
           ELSE /\ worker' = [worker EXCEPT ![w] = Failed(w)]
                /\ lock' = NoThread
                /\ UNCHANGED nspawn
    /\ UNCHANGED <<config, allocations, allocated, service, active, current, main, handled,
                   boundary>>

\* write_launch_config_files: the service file is written, or the write fails.
WriteServiceFile(w) ==
    /\ worker[w].op \in StartOps /\ worker[w].pc = "write_service"
    /\ \E ok \in BOOLEAN :
        /\ HostFault(~ok)
        /\ IF ok
           THEN /\ service' = [service EXCEPT ![worker[w].realm] =
                                   ServiceContent(worker[w].realm, worker[w].devices)]
                /\ worker' = [worker EXCEPT ![w].pc = "systemctl_start",
                                            ![w].steps = Append1(w, "write_service")]
                /\ UNCHANGED lock
           ELSE /\ worker' = [worker EXCEPT ![w] = Failed(w)]
                /\ lock' = NoThread
                /\ UNCHANGED service
    /\ UNCHANGED <<config, allocations, allocated, nspawn, active, current, main, handled,
                   boundary>>

\* A holder of a launcher other than start_realm: RealmLauncher::new.
NewLauncher(w, realm) ==
    /\ worker[w].op = "idle"
    /\ worker' = [worker EXCEPT ![w] = [Idle EXCEPT !.op = "build", !.realm = realm,
                                                    !.pc = "ready"]]
    /\ UNCHANGED <<config, allocations, allocated, lock, nspawn, service,
                   active, current, main, handled, faults,
                   boundary>>

\* What a call of write_launch_config_files can meet once the nspawn file is
\* generated.
WriteOutcomes == {"written", "nspawn_failed", "service_failed"}

\* ... and one call of write_launch_config_files on that launcher, with the
\* NetworkConfig the caller has exclusively: the devices are probed or kept,
\* the nspawn file is generated (the allocator is asked) and written, then
\* the service file.
WriteLaunchConfigFiles(w) ==
    /\ worker[w].op = "build" /\ worker[w].pc = "ready"
    /\ Len(worker[w].steps) < MaxCalls
    /\ MutexFree
    /\ LET realm == worker[w].realm
           got == NetworkRequest(realm)
           devices == ProbedDevices(worker[w].devices, realm)
           built == [worker[w] EXCEPT !.devices = devices,
                                      !.shared = SharedBind(realm),
                                      !.probed = host,
                                      !.table = allocations,
                                      !.addr = got.addr,
                                      !.steps = Append1(w, "build")]
       IN
       IF got.err # ""
       THEN /\ worker' = [worker EXCEPT ![w] = [built EXCEPT !.result = "err"]]
            /\ UNCHANGED <<allocations, allocated, nspawn, service, faults>>
       ELSE \E outcome \in WriteOutcomes :
            /\ HostFault(outcome # "written")
            /\ IF got.addr # 0 THEN InsertAllocation(realm, got.addr)
               ELSE UNCHANGED <<allocations, allocated>>
            /\ nspawn' = IF outcome = "nspawn_failed" THEN nspawn
                         ELSE [nspawn EXCEPT ![realm] =
                                  NspawnContent(realm, got.addr, devices,
                                                SharedBind(realm))]
            /\ service' = IF outcome # "written" THEN service
                          ELSE [service EXCEPT ![realm] =
                                   ServiceContent(realm, devices)]
            /\ worker' = [worker EXCEPT ![w] =
                    [built EXCEPT !.result = IF outcome = "written" THEN "ok"
                                             ELSE "err"]]
    /\ UNCHANGED <<config, lock, active, current, main, handled,
                   boundary>>

\* The launcher goes out of scope.
DropLauncher(w) ==
    /\ worker[w].op = "build"
    /\ worker' = [worker EXCEPT ![w] = Idle]
    /\ UNCHANGED <<config, allocations, allocated, lock, nspawn, service,
                   active, current, main, handled, faults,
                   boundary>>

\* What `systemctl <op> <unit>` can do: exit 0, exit non-zero, or not be spawned.
Exits == {"zero", "nonzero", "spawn_failed"}

\* run_systemctl: Ok(status.success()) or Err; its caller keeps only the Err.
RunSystemctlFails(exit) == exit = "spawn_failed"

\* (mutant) a start_realm that gives the address back when systemctl cannot
\* be run.
SystemctlStartRollback(w) ==
    /\ worker[w].op \in StartOps /\ worker[w].pc = "systemctl_start"
    /\ \E exit \in Exits :
        /\ HostFault(exit # "zero")
        /\ IF RunSystemctlFails(exit)
           THEN /\ worker' = [worker EXCEPT ![w] = [Failed(w) EXCEPT !.exit = exit]]
                /\ lock' = NoThread
                /\ FreeAllocationFor(config[worker[w].realm].network_zone,
                                     worker[w].realm)
                /\ UNCHANGED active
           ELSE /\ active' = [active EXCEPT ![worker[w].realm] = (@ \/ exit = "zero")]
                /\ worker' = [worker EXCEPT
                        ![w].pc = IF config[worker[w].realm].ephemeral_home
                                  THEN "skel" ELSE "emit_started",
                        ![w].exit = exit,
                        ![w].steps = Append1(w, "systemctl_start")]
                /\ lock' = IF config[worker[w].realm].ephemeral_home
                           THEN lock ELSE NoThread
                /\ UNCHANGED <<allocations, allocated>>
    /\ UNCHANGED <<config, nspawn, service, current, main, handled,
                   boundary>>

\* Systemd::start_realm: systemctl start, then the ephemeral home or the return.
SystemctlStart(w) ==
    /\ worker[w].op \in StartOps /\ worker[w].pc = "systemctl_start"
    /\ \E exit \in Exits :
        /\ HostFault(exit # "zero")
        /\ IF RunSystemctlFails(exit)
           THEN /\ worker' = [worker EXCEPT ![w] = [Failed(w) EXCEPT !.exit = exit]]
                /\ lock' = NoThread
                /\ UNCHANGED active
           ELSE /\ active' = [active EXCEPT ![worker[w].realm] = (@ \/ exit = "zero")]
                /\ IF config[worker[w].realm].ephemeral_home
                   THEN /\ worker' = [worker EXCEPT ![w].pc = "skel", ![w].exit = exit,
                                        ![w].steps = Append1(w, "systemctl_start")]
                        /\ UNCHANGED lock
                   ELSE /\ worker' = [worker EXCEPT ![w].pc = "emit_started",
                                        ![w].exit = exit,
                                        ![w].steps = Append1(w, "systemctl_start")]
                        /\ lock' = NoThread
    /\ UNCHANGED <<config, allocations, allocated, nspawn, service, current, main, handled,
                   boundary>>

\* Systemd::start_realm returns Ok(()): the MutexGuard is dropped and
\* RealmManager::start_realm goes on to emit Started.
Returned(w, step) ==
    [worker[w] EXCEPT !.pc = "emit_started", !.steps = Append1(w, step)]

\* setup_ephemeral_home 1): copy /realms/skel when it exists.
CopySkel(w) ==
    /\ worker[w].op \in StartOps /\ worker[w].pc = "skel"
    /\ \E present \in BOOLEAN, spawned \in BOOLEAN :
        /\ HostFault(present /\ ~spawned)
        /\ IF present /\ ~spawned
           THEN /\ worker' = [worker EXCEPT ![w] = Failed(w)]
                /\ lock' = NoThread
           ELSE /\ worker' = [worker EXCEPT ![w].pc = "realm_skel",
                                            ![w].steps = Append1(w, "skel")]
                /\ UNCHANGED lock
    /\ UNCHANGED <<config, allocations, allocated, nspawn, service, active,
                   current, main, handled,
                   boundary>>

\* setup_ephemeral_home 2): copy the realm's own skel when it exists, then
\* return early when the realm has no home directory.
CopyRealmSkel(w) ==
    /\ worker[w].op \in StartOps /\ worker[w].pc = "realm_skel"
    /\ \E present \in BOOLEAN, spawned \in BOOLEAN, home \in BOOLEAN :
        /\ HostFault(present /\ ~spawned)
        /\ IF present /\ ~spawned
           THEN /\ worker' = [worker EXCEPT ![w] = Failed(w)]
                /\ lock' = NoThread
           ELSE IF home /\ NumDirs > 0
           THEN /\ worker' = [worker EXCEPT ![w].pc = "bind", ![w].dir = 1,
                                            ![w].steps = Append1(w, "realm_skel")]
                /\ UNCHANGED lock
           ELSE /\ worker' = [worker EXCEPT ![w] = Returned(w, "realm_skel")]
                /\ lock' = NoThread
    /\ UNCHANGED <<config, allocations, allocated, nspawn, service, active,
                   current, main, handled,
                   boundary>>

\* What one pass of the loop over ephemeral_persistent_dirs can meet.
BindOutcomes == {"skipped", "bound", "canonicalize_failed", "spawn_failed"}

\* setup_ephemeral_home 3): one entry of ephemeral_persistent_dirs.
BindPersistentDir(w) ==
    /\ worker[w].op \in StartOps /\ worker[w].pc = "bind"
    /\ \E outcome \in BindOutcomes :
        /\ HostFault(outcome \in {"canonicalize_failed", "spawn_failed"})
        /\ IF outcome \in {"canonicalize_failed", "spawn_failed"}
           THEN /\ worker' = [worker EXCEPT ![w] = Failed(w)]
                /\ lock' = NoThread
           ELSE IF worker[w].dir < NumDirs
           THEN /\ worker' = [worker EXCEPT ![w].dir = @ + 1,
                                            ![w].steps = Append1(w, "bind")]
                /\ UNCHANGED lock
           ELSE /\ worker' = [worker EXCEPT ![w] = Returned(w, "bind")]
                /\ lock' = NoThread
    /\ UNCHANGED <<config, allocations, allocated, nspawn, service, active,
                   current, main, handled,
                   boundary>>

\* RealmManager::start_realm after the bridge returned Ok: Started is emitted,
\* and start_realm returns once the handler (if any) has run.
EmitStarted(w) ==
    /\ worker[w].op \in StartOps /\ worker[w].pc = "emit_started"
    /\ IF handlers
       THEN /\ Emit(Event("Started", Some(worker[w].realm)))
            /\ worker' = [worker EXCEPT ![w].pc = "handle_event",
                                        ![w].ev = Len(events) + 1,
                                        ![w].steps = Append1(w, "Started")]
       ELSE /\ UNCHANGED events
            /\ worker' = [worker EXCEPT ![w] =
                    StartReturnedOk([@ EXCEPT !.steps = Append1(w, "Started")])]
    /\ UNCHANGED <<config, allocations, allocated, lock, nspawn, service,
                   active, current, main, handled, faults, reply, handlers, host, call, entry, versions,
                   signals>>

\* ------------------------------------------------------------------- Stop
\* Systemd::stop_realm: systemctl stop.
SystemctlStop(w) ==
    /\ worker[w].op = "stop" /\ worker[w].pc = "systemctl_stop"
    /\ \E exit \in Exits :
        /\ HostFault(exit # "zero")
        /\ IF RunSystemctlFails(exit)
           THEN /\ worker' = [worker EXCEPT ![w] = [Failed(w) EXCEPT !.exit = exit]]
                /\ UNCHANGED active
           ELSE /\ active' = [active EXCEPT ![worker[w].realm] = (@ /\ exit # "zero")]
                /\ worker' = [worker EXCEPT ![w].pc = "rm_nspawn", ![w].exit = exit,
                                   ![w].steps = Append1(w, "systemctl_stop")]
    /\ UNCHANGED <<config, allocations, allocated, lock, nspawn, service,
                   current, main, handled,
                   boundary>>

\* remove_launch_config_files: the nspawn file, when it exists.
RemoveNspawnFile(w) ==
    /\ worker[w].op = "stop" /\ worker[w].pc = "rm_nspawn"
    /\ \E ok \in BOOLEAN :
        /\ HostFault(nspawn[worker[w].realm].exists /\ ~ok)
        /\ IF nspawn[worker[w].realm].exists /\ ~ok
           THEN /\ worker' = [worker EXCEPT ![w] = Failed(w)]
                /\ UNCHANGED nspawn
           ELSE /\ nspawn' = [nspawn EXCEPT ![worker[w].realm] = NoFile]
                /\ worker' = [worker EXCEPT ![w].pc = "rm_service",
                                   ![w].steps = Append1(w, "rm_nspawn")]
    /\ UNCHANGED <<config, allocations, allocated, lock, service, active,
                   current, main, handled,
                   boundary>>

\* remove_launch_config_files: the service file, when it exists.
RemoveServiceFile(w) ==
    /\ worker[w].op = "stop" /\ worker[w].pc = "rm_service"
    /\ \E ok \in BOOLEAN :
        /\ HostFault(service[worker[w].realm].exists /\ ~ok)
        /\ IF service[worker[w].realm].exists /\ ~ok
           THEN /\ worker' = [worker EXCEPT ![w] = Failed(w)]
                /\ UNCHANGED service
           ELSE /\ service' = [service EXCEPT ![worker[w].realm] = NoFile]
                /\ worker' = [worker EXCEPT ![w].pc = "free",
                                   ![w].steps = Append1(w, "rm_service")]
    /\ UNCHANGED <<config, allocations, allocated, lock, nspawn, active,
                   current, main, handled,
                   boundary>>

\* (mutant) stop_realm returns without calling free_allocation_for.
FreeAllocationSkipped(w) ==
    /\ worker[w].op = "stop" /\ worker[w].pc = "free"
    /\ MutexFree
    /\ lock' = NoThread
    /\ worker' = [worker EXCEPT ![w].pc = "emit_stopped",
                                ![w].addr = allocations[worker[w].realm],
                                ![w].steps = Append1(w, "free")]
    /\ UNCHANGED <<config, allocations, allocated, nspawn, service, active,
                   current, main, handled, faults,
                   boundary>>

\* (mutant) stop_realm frees the allocation without taking the mutex.
FreeAllocationUnlocked(w) ==
    /\ worker[w].op = "stop" /\ worker[w].pc = "free"
    /\ FreeAllocationFor(config[worker[w].realm].network_zone, worker[w].realm)
    /\ UNCHANGED lock
    /\ worker' = [worker EXCEPT ![w].pc = "emit_stopped",
                                ![w].addr = allocations[worker[w].realm],
                                ![w].steps = Append1(w, "free")]
    /\ UNCHANGED <<config, nspawn, service, active, current, main, handled, faults,
                   boundary>>

\* Systemd::stop_realm: the mutex is taken, free_allocation_for runs, and the
\* guard is dropped as the function returns.
FreeAllocation(w) ==
    /\ worker[w].op = "stop" /\ worker[w].pc = "free"
    /\ MutexFree
    /\ FreeAllocationFor(config[worker[w].realm].network_zone, worker[w].realm)
    /\ lock' = NoThread
    /\ worker' = [worker EXCEPT ![w].pc = "emit_stopped",
                                ![w].addr = allocations[worker[w].realm],
                                ![w].steps = Append1(w, "free")]
    /\ UNCHANGED <<config, nspawn, service, active, current, main, handled, faults,
                   boundary>>

\* RealmManager::stop_realm after the bridge returned Ok: Stopped is emitted.
EmitStopped(w) ==
    /\ worker[w].op = "stop" /\ worker[w].pc = "emit_stopped"
    /\ IF handlers
       THEN /\ Emit(Event("Stopped", Some(worker[w].realm)))
            /\ worker' = [worker EXCEPT ![w].pc = "handle_event",
                                        ![w].ev = Len(events) + 1,
                                        ![w].steps = Append1(w, "Stopped")]
       ELSE /\ UNCHANGED events
            /\ worker' = [worker EXCEPT ![w].pc = "clear_current",
                                        ![w].steps = Append1(w, "Stopped")]
    /\ UNCHANGED <<config, allocations, allocated, lock, nspawn, service,
                   active, current, main, handled, faults, reply, handlers, host, call, entry, versions,
                   signals>>

\* ... then, when the stopped realm was the current one, the pointer is set
\* to none and Current(None) is emitted.
ClearCurrent(w) ==
    /\ worker[w].op = "stop" /\ worker[w].pc = "clear_current"
    /\ IF current = worker[w].realm
       THEN /\ current' = NoRealm
            /\ IF handlers
               THEN /\ Emit(Event("Current", None))
                    /\ worker' = [worker EXCEPT ![w].pc = "handle_event",
                                        ![w].ev = Len(events) + 1,
                                        ![w].steps = Append1(w, "Current(None)")]
               ELSE /\ UNCHANGED events
                    /\ worker' = [worker EXCEPT ![w].pc = "done",
                                        ![w].result = "ok",
                                        ![w].steps = Append1(w, "Current(None)")]
       ELSE /\ UNCHANGED <<current, events>>
            /\ worker' = [worker EXCEPT ![w].pc = "done", ![w].result = "ok"]
    /\ UNCHANGED <<config, allocations, allocated, lock, nspawn, service,
                   active, main, handled, faults, reply, handlers, host, call, entry, versions, signals>>

\* The spawned closure ends (after logging an Err): the thread is gone.
Finish(w) ==
    /\ worker[w].pc = "done"
    /\ worker' = [worker EXCEPT ![w] = Idle]
    /\ UNCHANGED <<config, allocations, allocated, lock, nspawn, service,
                   active, current, main, handled, faults,
                   boundary>>

\* -------------------------------------------- Terminal / Run, event source
\* The closure of do_terminal / do_run asks whether the realm is running, and
\* calls start_realm only when it is not.
CheckIsActive(w) ==
    /\ worker[w].op \in {"terminal", "run"} /\ worker[w].pc = "is_active"
    /\ worker' = [worker EXCEPT ![w] =
            IF active[worker[w].realm]
            THEN [@ EXCEPT !.pc = "launch", !.steps = Append1(w, "active")]
            ELSE [@ EXCEPT !.pc = "check_active",
                           !.steps = Append1(w, "inactive")]]
    /\ UNCHANGED <<config, allocations, allocated, lock, nspawn, service,
                   active, current, main, handled, faults, boundary>>

\* launch_terminal / run_in_realm: the session is opened, or the Err logged.
Launch(w) ==
    /\ worker[w].op \in {"terminal", "run"} /\ worker[w].pc = "launch"
    /\ \E ok \in BOOLEAN :
        /\ HostFault(~ok)
        /\ worker' = [worker EXCEPT ![w] =
                IF ok THEN [@ EXCEPT !.pc = "done", !.result = "ok",
                                     !.steps = Append1(w, "launch")]
                ELSE [Failed(w) EXCEPT !.steps = Append1(w, "launch")]]
    /\ UNCHANGED <<config, allocations, allocated, lock, nspawn, service,
                   active, current, main, handled, boundary>>

\* The events a RealmManager can emit.
RealmEvents ==
    {Event(k, Some(r)) : k \in {"Started", "Stopped", "New", "Removed", "Current"},
                         r \in Realms}
    \cup {Event("Current", None)}

\* An event source of the manager other than Start / Stop / SetCurrent (the
\* discovery of realm definitions, the event task) emits an event on a thread
\* of its own.
ManagerEmits(w, ev) ==
    /\ handlers
    /\ worker[w].op = "idle"
    /\ Len(events) < MaxEvents
    /\ Emit(ev)
    /\ worker' = [worker EXCEPT ![w] =
            [Idle EXCEPT !.op = "event", !.pc = "handle_event",
                         !.ev = Len(events) + 1]]
    /\ UNCHANGED <<config, allocations, allocated, lock, nspawn, service,
                   active, current, main, handled, faults, reply, handlers, host, call, entry, versions,
                   signals>>

\* ------------------------------------------------------- the message loop
MainIdle == [pc |-> "idle", realm |-> NoRealm, ev |-> 0]

IdleWorkers == {w \in Workers : worker[w].op = "idle"}

\* (mutant) the operation is run on the loop's own thread, which is busy
\* until it ends.
SpawnInline(op, realm, pc) ==
    /\ IdleWorkers # {}
    /\ LET new == CHOOSE w \in IdleWorkers : TRUE
       IN worker' = [worker EXCEPT ![new] =
                [Idle EXCEPT !.op = op, !.realm = realm, !.pc = pc]]
    /\ main' = [main EXCEPT !.pc = "busy"]

\* thread::spawn: the new thread runs `op` for `realm` from position `pc`, and
\* the loop's thread goes on.
Spawn(op, realm, pc) ==
    /\ IdleWorkers # {}
    /\ LET new == CHOOSE w \in IdleWorkers : TRUE
           same == {w \in Workers : worker[w].realm = realm}
       IN worker' = [w \in Workers |->
                IF w = new
                THEN [Idle EXCEPT !.op = op, !.realm = realm, !.pc = pc,
                                  !.overlap = (same # {})]
                ELSE IF w \in same THEN [worker[w] EXCEPT !.overlap = TRUE]
                ELSE worker[w]]
    /\ UNCHANGED main

\* (mutant) a lookup that answers with some realm for a name it does not know.
realm_by_name_some(name) ==
    IF name \in Realms THEN Some(name) ELSE Some(CHOOSE r \in Realms : TRUE)

\* TreeData::realm_by_name, Ok as Some and the MethodErr as None.
realm_by_name(name) == IF name \in Realms THEN Some(name) ELSE None

\* A reply to the call of `method` with `name`: the empty method_return
\* ("empty") or the MethodErr ("fault").
Reply(method, name, kind) == [method |-> method, name |-> name, kind |-> kind]
NoReply == Reply("", "", "none")

\* The body the four dispatching methods share: realm_by_name(name)? returns
\* the fault to the caller; otherwise the closure is spawned and the empty
\* method_return is the reply.
Dispatch(name, op, pc) ==
    LET found == realm_by_name(name) IN
    IF found = None
    THEN reply' = Reply(op, name, "fault") /\ UNCHANGED <<worker, main>>
    ELSE Spawn(op, found[1], pc) /\ reply' = Reply(op, name, "empty")

\* The loop takes the next request.
TakeRequest ==
    /\ main.pc = "idle"
    /\ handled < MaxRequests
    /\ handled' = handled + 1

DoStart(name) ==
    /\ TakeRequest
    /\ Dispatch(name, "start", "check_active")
    /\ UNCHANGED <<config, allocations, allocated, lock, nspawn, service,
                   active, current, faults, handlers, host, call, entry, versions, events, signals>>

DoStop(name) ==
    /\ TakeRequest
    /\ Dispatch(name, "stop", "systemctl_stop")
    /\ UNCHANGED <<config, allocations, allocated, lock, nspawn, service,
                   active, current, faults, handlers, host, call, entry, versions, events, signals>>

DoTerminal(name) ==
    /\ TakeRequest
    /\ Dispatch(name, "terminal", "is_active")
    /\ UNCHANGED <<config, allocations, allocated, lock, nspawn, service,
                   active, current, faults, handlers, host, call, entry, versions, events, signals>>

\* do_run; the arguments are handed to run_in_realm and read nowhere else.
DoRun(name) ==
    /\ TakeRequest
    /\ Dispatch(name, "run", "is_active")
    /\ UNCHANGED <<config, allocations, allocated, lock, nspawn, service,
                   active, current, faults, handlers, host, call, entry, versions, events, signals>>

\* (mutant) do_set_current looks the realm up the way do_start does, with `?`.
DoSetCurrentFaults(name) ==
    /\ TakeRequest
    /\ IF name \in Realms /\ active[name]
       THEN /\ main' = [MainIdle EXCEPT !.pc = "set_current", !.realm = name]
            /\ UNCHANGED reply
       ELSE /\ UNCHANGED main
            /\ reply' = Reply("set_current", name,
                              IF name \in Realms THEN "empty" ELSE "fault")
    /\ UNCHANGED <<config, allocations, allocated, lock, nspawn, service,
                   active, current, worker, faults, handlers, host, call, entry, versions, events, signals>>

\* do_set_current: a name of no realm is skipped; set_current_realm refuses a
\* realm that is not running (a query of the supervisor) and do_set_current
\* logs that; the reply is the empty method_return in every case.
DoSetCurrent(name) ==
    /\ TakeRequest
    /\ IF name \in Realms /\ active[name]
       THEN /\ main' = [MainIdle EXCEPT !.pc = "set_current", !.realm = name]
            /\ UNCHANGED reply
       ELSE /\ UNCHANGED main
            /\ reply' = Reply("set_current", name, "empty")
    /\ UNCHANGED <<config, allocations, allocated, lock, nspawn, service,
                   active, current, worker, faults, handlers, host, call, entry, versions, events, signals>>

\* ... the pointer is reassigned and Current(Some(realm)) emitted; the reply
\* is sent once the handler (if any) has run.
SetCurrentRealm ==
    /\ main.pc = "set_current"
    /\ current' = main.realm
    /\ IF handlers
       THEN /\ Emit(Event("Current", Some(main.realm)))
            /\ main' = [main EXCEPT !.pc = "handle_event",
                                    !.ev = Len(events) + 1]
            /\ UNCHANGED reply
       ELSE /\ UNCHANGED events
            /\ main' = MainIdle
            /\ reply' = Reply("set_current", main.realm, "empty")
    /\ UNCHANGED <<config, allocations, allocated, lock, nspawn, service,
                   active, worker, handled, faults, handlers, host, call, entry, versions, signals>>

\* The handler runs on the loop's thread, then do_set_current replies.
MainHandleEvent ==
    /\ main.pc = "handle_event"
    /\ \E sent \in BOOLEAN :
        /\ HostFault(~sent)
        /\ ConnectionSend(main.ev, sent)
    /\ main' = MainIdle
    /\ reply' = Reply("set_current", main.realm, "empty")
    /\ UNCHANGED <<config, allocations, allocated, lock, nspawn, service,
                   active, current, worker, handled, handlers, host, call, entry, versions, events>>

\* ------------------------------------------------------- DbusServer::start
\* The positions of start() before its loop.
StartupPcs ==
    {"register_name", "receive_signals", "add_event_handler",
     "start_event_task", "send_service_started"}

\* start() returns the Err of a call it makes with `?`: main logs it, and the
\* process ends.
Exited == [MainIdle EXCEPT !.pc = "exited"]

\* register_name, set_registered, add_handler: the name is taken and the tree
\* is the connection's handler, or start() returns the Err.
RegisterName ==
    /\ main.pc = "register_name"
    /\ \E ok \in BOOLEAN :
        /\ HostFault(~ok)
        /\ main' = IF ok THEN [main EXCEPT !.pc = "receive_signals"] ELSE Exited
    /\ UNCHANGED <<config, allocations, allocated, lock, nspawn, service,
                   active, current, worker, handled, boundary>>

\* receive_signals_from, twice: the match rules are added, or start() returns
\* the Err.
ReceiveSignalsFrom ==
    /\ main.pc = "receive_signals"
    /\ \E ok \in BOOLEAN :
        /\ HostFault(~ok)
        /\ main' = IF ok THEN [main EXCEPT !.pc = "add_event_handler"] ELSE Exited
    /\ UNCHANGED <<config, allocations, allocated, lock, nspawn, service,
                   active, current, worker, handled, boundary>>

\* manager.add_event_handler: from here on the events the manager emits are
\* handled by EventHandler.
AddEventHandler ==
    /\ main.pc = "add_event_handler"
    /\ handlers' = TRUE
    /\ main' = [main EXCEPT !.pc = "start_event_task"]
    /\ UNCHANGED <<config, allocations, allocated, lock, nspawn, service,
                   active, current, worker, handled, faults, reply, events,
                   signals, host, call, entry, versions>>

\* manager.start_event_task: its Err is only logged.
StartEventTask ==
    /\ main.pc = "start_event_task"
    /\ \E ok \in BOOLEAN : HostFault(~ok)
    /\ main' = [main EXCEPT !.pc = "send_service_started"]
    /\ UNCHANGED <<config, allocations, allocated, lock, nspawn, service,
                   active, current, worker, handled, boundary>>

\* DbusServer::create_signal: a signal of the interface without arguments.
create_signal(name) == [member |-> name]

\* (mutant) start() enters its loop without the call of send_service_started.
SendServiceStartedForgotten ==
    /\ main.pc = "send_service_started"
    /\ main' = MainIdle
    /\ UNCHANGED <<config, allocations, allocated, lock, nspawn, service,
                   active, current, worker, handled, faults, boundary>>

\* send_service_started: ServiceStarted is given to the connection (a send
\* that fails is only logged), and start() enters its loop.
SendServiceStarted ==
    /\ main.pc = "send_service_started"
    /\ \E sent \in BOOLEAN :
        /\ HostFault(~sent)
        /\ signals' = Append(signals, [msg |-> create_signal("ServiceStarted"),
                                       ev |-> 0, sent |-> sent])
    /\ main' = MainIdle
    /\ UNCHANGED <<config, allocations, allocated, lock, nspawn, service,
                   active, current, worker, handled, reply, handlers, host, call, entry, versions, events>>

\* realm.is_active() and realm.is_current(), as realm_status asks them.
IsActive(realm) == active[realm]
IsCurrent(realm) == current = realm

STATUS_REALM_NOT_RUNNING == 0
STATUS_REALM_RUNNING_NOT_CURRENT == 1
STATUS_REALM_RUNNING_CURRENT == 2

\* (mutant) realm_status forgets to ask is_current.
realm_status_any_active(realm) ==
    IF IsActive(realm) THEN STATUS_REALM_RUNNING_CURRENT
    ELSE STATUS_REALM_NOT_RUNNING

\* (mutant) realm_status never answers RunningCurrent.
realm_status_never_current(realm) ==
    IF IsActive(realm) THEN STATUS_REALM_RUNNING_NOT_CURRENT
    ELSE STATUS_REALM_NOT_RUNNING

\* (mutant) realm_status asks is_current before, and without, is_active.
realm_status_current_first(realm) ==
    IF IsCurrent(realm) THEN STATUS_REALM_RUNNING_CURRENT
    ELSE IF IsActive(realm) THEN STATUS_REALM_RUNNING_NOT_CURRENT
    ELSE STATUS_REALM_NOT_RUNNING

\* TreeData::realm_status
realm_status(realm) ==
    IF IsActive(realm) /\ IsCurrent(realm) THEN STATUS_REALM_RUNNING_CURRENT
    ELSE IF IsActive(realm) THEN STATUS_REALM_RUNNING_NOT_CURRENT
    ELSE STATUS_REALM_NOT_RUNNING

\* TreeData::realm_list: the reply of List() in the present state.
realm_list == [r \in Realms |-> realm_status(r)]

\* ------------------------------------------- citadel-tool: boot entry names
\* A string is the sequence of its characters.  The strings at hand are made
\* from a few pieces, MaxPieces of them at most.
EMPTY == <<>>
CONF == <<".", "c", "o", "n", "f">>
Digit == <<"0", "1", "2", "3", "4", "5", "6", "7", "8", "9">>
IsDigit(c) == \E i \in 1..Len(Digit) : Digit[i] = c
DigitValue(c) == (CHOOSE i \in 1..Len(Digit) : Digit[i] = c) - 1

RECURSIVE Concat(_)
Concat(pieces) ==
    IF pieces = <<>> THEN EMPTY ELSE Head(pieces) \o Concat(Tail(pieces))

\* The strings of at most n pieces.
Strings(pieces, n) ==
    {Concat(ps) : ps \in UNION {[1..k -> pieces] : k \in 0..n}}

EndsWith(s, pat) ==
    Len(s) >= Len(pat) /\ SubSeq(s, Len(s) - Len(pat) + 1, Len(s)) = pat

RECURSIVE trim_end_matches(_, _)
\* str::trim_end_matches: takes the suffix away as often as it is there.
trim_end_matches(s, pat) ==
    IF EndsWith(s, pat)
    THEN trim_end_matches(SubSeq(s, 1, Len(s) - Len(pat)), pat)
    ELSE s

Positions(s, c) == {i \in 1..Len(s) : s[i] = c}
Max(S) == CHOOSE x \in S : \A y \in S : x >= y

\* s.splitn(2, c): the parts before and after the first c, or s alone.
splitn2(s, c) ==
    IF Positions(s, c) = {} THEN <<s>>
    ELSE LET i == Min(Positions(s, c)) IN
         <<SubSeq(s, 1, i - 1), SubSeq(s, i + 1, Len(s))>>

\* s.rsplitn(2, c): the parts after and before the last c (in that order), or
\* s alone.
rsplitn2(s, c) ==
    IF Positions(s, c) = {} THEN <<s>>
    ELSE LET i == Max(Positions(s, c)) IN
         <<SubSeq(s, i + 1, Len(s)), SubSeq(s, 1, i - 1)>>

RECURSIVE Decimal(_)
Decimal(s) ==
    IF s = <<>> THEN 0
    ELSE Decimal(SubSeq(s, 1, Len(s) - 1)) * 10 + DigitValue(s[Len(s)])

\* The longest run of digits that is below u32::MAX whatever the digits.
U32_SAFE_DIGITS == 9

\* s.parse::<u32>(): an optional '+', then one digit or more, the value within
\* u32.  (A run of ten digits or more is beyond the strings at hand; it is
\* refused here.)
parse_u32(s) ==
    LET body == IF s # <<>> /\ s[1] = "+" THEN Tail(s) ELSE s IN
    IF body = <<>> \/ Len(body) > U32_SAFE_DIGITS
       \/ \E i \in 1..Len(body) : ~IsDigit(body[i])
    THEN None
    ELSE Some(Decimal(body))

\* format!("{}", n) of a u32.
RECURSIVE to_string(_)
to_string(n) ==
    IF n < 10 THEN <<Digit[n + 1]>>
    ELSE to_string(n \div 10) \o <<Digit[(n % 10) + 1]>>

\* (mutant) the index is looked for after the first dot of the name.
parse_filename_first_dot(filename) ==
    LET trimmed == trim_end_matches(filename, CONF)
        parts == splitn2(trimmed, "+")
        boot_count == IF Len(parts) = 2 THEN Some(parts[2]) ELSE None
        dots == Positions(parts[1], ".")
        v == IF dots = {} THEN <<parts[1]>>
             ELSE <<SubSeq(parts[1], Min(dots) + 1, Len(parts[1])),
                    SubSeq(parts[1], 1, Min(dots) - 1)>>
    IN  IF Len(v) = 2 /\ parse_u32(v[1]) # None
        THEN [name |-> v[2], index |-> parse_u32(v[1]), boot_count |-> boot_count]
        ELSE [name |-> parts[1], index |-> None, boot_count |-> boot_count]

\* BootEntry::parse_filename: (name, index, boot_count) of a file name.
parse_filename(filename) ==
    LET trimmed == trim_end_matches(filename, CONF)
        parts == splitn2(trimmed, "+")
        boot_count == IF Len(parts) = 2 THEN Some(parts[2]) ELSE None
        v == rsplitn2(parts[1], ".")
    IN  IF Len(v) = 2 /\ parse_u32(v[1]) # None
        THEN [name |-> v[2], index |-> parse_u32(v[1]), boot_count |-> boot_count]
        ELSE [name |-> parts[1], index |-> None, boot_count |-> boot_count]

\* BootEntry::path: the file name of an entry (under BootEntries::base_path()).
BootEntryPath(e) ==
    e.name
    \o (IF e.index # None THEN <<".">> \o to_string(e.index[1]) ELSE EMPTY)
    \o (IF e.boot_count # None THEN <<"+">> \o e.boot_count[1] \o CONF ELSE CONF)

\* BootEntry::new: the fields a file name stands for.
BootEntryNew(name, index, boot_count) ==
    [name |-> name, index |-> index, boot_count |-> boot_count]

\* No entry at hand.
NoEntry == [pc |-> "none", fields |-> BootEntryNew(EMPTY, None, None),
            filename |-> EMPTY, parsed |-> BootEntryNew(EMPTY, None, None)]

\* The names (dots allowed, no '+'), indices and boot counts at hand.
NamePieces == {<<"b">>, <<".">>, <<"2">>, <<"c", "o", "n", "f">>}
EntryNames == Strings(NamePieces, MaxPieces)
EntryIndices == {None, Some(0), Some(2), Some(10)}
EntryBootCounts ==
    {None, Some(EMPTY), Some(<<"3">>), Some(<<"2", "-", "2">>),
     Some(<<"+", "1">>), Some(<<"3">> \o CONF)}

\* An entry is made: BootEntry::new.
NewEntry ==
    /\ entry.pc = "none"
    /\ \E n \in EntryNames, i \in EntryIndices, c \in EntryBootCounts :
          entry' = [entry EXCEPT !.pc = "new", !.fields = BootEntryNew(n, i, c)]
    /\ UNCHANGED <<config, allocations, allocated, lock, nspawn, service, active,
                   current, worker, main, handled, faults, reply, handlers,
                   events, signals, host, call, versions>>

\* Its file is named: BootEntry::path (in write, rotate).
NameEntryFile ==
    /\ entry.pc = "new"
    /\ entry' = [entry EXCEPT !.pc = "named",
                              !.filename = BootEntryPath(entry.fields)]
    /\ UNCHANGED <<config, allocations, allocated, lock, nspawn, service, active,
                   current, worker, main, handled, faults, reply, handlers,
                   events, signals, host, call, versions>>

\* The directory is read again: BootEntry::from_filename (BootEntries::load).
FromFilename ==
    /\ entry.pc = "named"
    /\ entry' = [entry EXCEPT !.pc = "parsed",
                              !.parsed = parse_filename(entry.filename)]
    /\ UNCHANGED <<config, allocations, allocated, lock, nspawn, service, active,
                   current, worker, main, handled, faults, reply, handlers,
                   events, signals, host, call, versions>>

\* ---------------------------------------- citadel-tool: kernel versions
RECURSIVE split(_, _)
\* s.split(c): every part between two c, the empty ones too.
split(s, c) ==
    IF Positions(s, c) = {} THEN <<s>>
    ELSE LET i == Min(Positions(s, c)) IN
         <<SubSeq(s, 1, i - 1)>> \o split(SubSeq(s, i + 1, Len(s)), c)

RECURSIVE ParsedFields(_)
\* .flat_map(|s| s.parse::<u32>().ok()): the parts that are numbers.
ParsedFields(parts) ==
    IF parts = <<>> THEN <<>>
    ELSE parse_u32(Head(parts)) \o ParsedFields(Tail(parts))

\* KernelVersion::parse_version_field
parse_version_field(s) ==
    LET elems == ParsedFields(split(s, ".")) IN
    IF Len(elems) = 2 THEN Some(<<elems[1], elems[2], None>>)
    ELSE IF Len(elems) = 3 THEN Some(<<elems[1], elems[2], Some(elems[3])>>)
    ELSE None

\* KernelVersion::parse_from_str
parse_from_str(s) ==
    LET parts == split(s, "-")
        fields == parse_version_field(parts[1])
        revision == IF Len(parts) >= 2 THEN parse_u32(parts[2]) ELSE None
    IN  IF fields = None THEN None
        ELSE Some([version |-> fields[1][1], major |-> fields[1][2],
                   minor |-> fields[1][3], revision |-> revision])

\* Path::file_name of a path that ends in a file's name.
file_name(p) ==
    LET f == rsplitn2(p, "/")[1] IN IF f = EMPTY THEN None ELSE Some(f)

\* KernelVersion::path_version_string
path_version_string(p) ==
    IF file_name(p) = None THEN None
    ELSE LET parts == splitn2(file_name(p)[1], "-") IN
         IF Len(parts) = 2 THEN Some(parts[2]) ELSE None

\* KernelVersion::parse_from_path
parse_from_path(p) ==
    IF path_version_string(p) = None THEN None
    ELSE parse_from_str(path_version_string(p)[1])

cmp_u32(a, b) == IF a < b THEN "Less" ELSE IF a > b THEN "Greater" ELSE "Equal"

\* (mutant) a missing field comes after a present one.
cmp_option_none_last(a, b) ==
    IF a = None /\ b = None THEN "Equal"
    ELSE IF a = None THEN "Greater"
    ELSE IF b = None THEN "Less"
    ELSE cmp_u32(a[1], b[1])

\* Ord of Option<u32>: None before every Some, Some by value.
cmp_option(a, b) ==
    IF a = None /\ b = None THEN "Equal"
    ELSE IF a = None THEN "Less"
    ELSE IF b = None THEN "Greater"
    ELSE cmp_u32(a[1], b[1])

\* #[derive(Ord)] of KernelVersion: the first field that differs decides, in
\* the order of declaration.
cmp(a, b) ==
    IF cmp_u32(a.version, b.version) # "Equal" THEN cmp_u32(a.version, b.version)
    ELSE IF cmp_u32(a.major, b.major) # "Equal" THEN cmp_u32(a.major, b.major)
    ELSE IF cmp_option(a.minor, b.minor) # "Equal" THEN cmp_option(a.minor, b.minor)
    ELSE cmp_option(a.revision, b.revision)

\* "/boot/bzImage-": where the kernels are, and how their files are named.
BOOT_BZIMAGE ==
    <<"/", "b", "o", "o", "t", "/", "b", "z", "I", "m", "a", "g", "e", "-">>

\* The version strings at hand: parts joined by dots, a suffix or none.
RECURSIVE Join(_, _)
Join(parts, sep) ==
    IF Len(parts) = 0 THEN EMPTY
    ELSE IF Len(parts) = 1 THEN parts[1]
    ELSE parts[1] \o sep \o Join(Tail(parts), sep)

VersionParts == {<<"5">>, <<"8">>, <<"x">>}
VersionSuffixes == {EMPTY, <<"-", "1">>, <<"-", "x">>}
VersionStrings ==
    {Join(ps, <<".">>) \o suf :
        ps \in UNION {[1..k -> VersionParts] : k \in 1..MaxPieces},
        suf \in VersionSuffixes}

\* No kernel at hand.
NoVersions == [pc |-> "none", a |-> EMPTY, b |-> EMPTY, va |-> None, vb |-> None,
               ord |-> "none"]

\* Two kernel images are found under /boot.
FindKernels ==
    /\ versions.pc = "none"
    /\ \E a \in VersionStrings, b \in VersionStrings :
          versions' = [versions EXCEPT !.pc = "found", !.a = BOOT_BZIMAGE \o a,
                                       !.b = BOOT_BZIMAGE \o b]
    /\ UNCHANGED <<config, allocations, allocated, lock, nspawn, service, active,
                   current, worker, main, handled, faults, reply, handlers,
                   events, signals, host, call, entry>>

\* KernelBzImage::from_path of both.
ParseVersions ==
    /\ versions.pc = "found"
    /\ versions' = [versions EXCEPT !.pc = "parsed",
                                    !.va = parse_from_path(versions.a),
                                    !.vb = parse_from_path(versions.b)]
    /\ UNCHANGED <<config, allocations, allocated, lock, nspawn, service, active,
                   current, worker, main, handled, faults, reply, handlers,
                   events, signals, host, call, entry>>

\* The two versions are compared (both parsed).
CompareVersions ==
    /\ versions.pc = "parsed"
    /\ versions.va # None
    /\ versions.vb # None
    /\ versions' = [versions EXCEPT !.pc = "compared",
                                    !.ord = cmp(versions.va[1], versions.vb[1])]
    /\ UNCHANGED <<config, allocations, allocated, lock, nspawn, service, active,
                   current, worker, main, handled, faults, reply, handlers,
                   events, signals, host, call, entry>>

\* ---------------------------------------------------------- specification
\* The realm definitions RealmManager::load may find.
Configs ==
    {[r \in Realms |-> IF r = "work" THEN ConfigEphemeral ELSE ConfigDynamic],
     [r \in Realms |-> IF r = "work" THEN ConfigDynamic ELSE ConfigReserved]}

\* The manager and the loop before the first request, no realm running.
Fresh ==
    /\ allocations = [r \in Realms |-> 0]
    /\ allocated = {}
    /\ lock = NoThread
    /\ nspawn = [r \in Realms |-> NoFile]
    /\ service = [r \in Realms |-> NoFile]
    /\ active = [r \in Realms |-> FALSE]
    /\ current = NoRealm
    /\ worker = [w \in Workers |-> Idle]
    /\ main = MainIdle
    /\ handled = 0
    /\ faults = 0
    /\ reply = NoReply
    /\ events = <<>>
    /\ signals = <<>>
    /\ host = {}
    /\ call = NoCall
    /\ entry = NoEntry
    /\ versions = NoVersions

\* The orchestration seen from the manager: Start, Stop and SetCurrent of the
\* realms of the collection, no event handler registered.
Init ==
    /\ config \in Configs
    /\ handlers = FALSE
    /\ Fresh

Next ==
    \/ \E r \in Realms : DoStart(r)
    \/ \E r \in Realms : DoStop(r)
    \/ \E r \in Realms : DoSetCurrent(r)
    \/ SetCurrentRealm
    \/ \E w \in Workers : StartCheckActive(w)
    \/ \E w \in Workers : GenerateNetworkConfig(w)
    \/ \E w \in Workers : RecordAllocation(w)
    \/ \E w \in Workers : WriteNspawnFile(w)
    \/ \E w \in Workers : WriteServiceFile(w)
    \/ \E w \in Workers : SystemctlStart(w)
    \/ \E w \in Workers : CopySkel(w)
    \/ \E w \in Workers : CopyRealmSkel(w)
    \/ \E w \in Workers : BindPersistentDir(w)
    \/ \E w \in Workers : EmitStarted(w)
    \/ \E w \in Workers : SystemctlStop(w)
    \/ \E w \in Workers : RemoveNspawnFile(w)
    \/ \E w \in Workers : RemoveServiceFile(w)
    \/ \E w \in Workers : FreeAllocation(w)
    \/ \E w \in Workers : EmitStopped(w)
    \/ \E w \in Workers : ClearCurrent(w)
    \/ \E w \in Workers : Finish(w)

Spec == Init /\ [][Next]_vars

\* The address a running realm holds once the Starts that brought `running`
\* up (a reserved address first, then "work", then "other") have ended.
SettledAddress(c, running, r) ==
    IF r \notin running THEN 0
    ELSE IF c[r].reserved_ip # 0 THEN c[r].reserved_ip
    ELSE IF \E o \in running \ {r} : c[o].reserved_ip = Gateway + 1
        THEN Gateway + 2
    ELSE IF r = "work" THEN Gateway + 1
    ELSE Gateway + 2

\* An ephemeral realm, and a realm that reserves the first address of the pool
\* (its Start fails with AddressInUse once "work" was given that address).
BoundaryConfig ==
    [r \in Realms |-> IF r = "work" THEN ConfigEphemeral ELSE ConfigReserved]

\* The D-Bus boundary at work: realmsd has registered its EventHandler, some
\* realms are already up and one of them may be current, and the loop takes
\* requests of every method, for names of realms and for a name of no realm.
\* The host fails no step here: a Start fails at the allocator.
BoundaryInit ==
    /\ config = BoundaryConfig
    /\ handlers = TRUE
    /\ \E running \in {{}, {"work"}, Realms} :
        /\ active = [r \in Realms |-> r \in running]
        /\ allocations = [r \in Realms |-> SettledAddress(config, running, r)]
        /\ allocated = {SettledAddress(config, running, r) : r \in running}
        /\ nspawn = [r \in Realms |->
                IF r \in running
                THEN NspawnContent(r, SettledAddress(config, running, r), <<>>, FALSE)
                ELSE NoFile]
        /\ service = [r \in Realms |->
                IF r \in running THEN ServiceContent(r, <<>>) ELSE NoFile]
        /\ current \in running \cup {NoRealm}
    /\ lock = NoThread
    /\ worker = [w \in Workers |-> Idle]
    /\ main = MainIdle
    /\ handled = 1
    /\ faults = MaxFaults
    /\ reply = NoReply
    /\ events = <<>>
    /\ signals = <<>>
    /\ host = {}
    /\ call = NoCall
    /\ entry = NoEntry
    /\ versions = NoVersions

BoundaryNext ==
    \/ \E n \in Names : DoStart(n)
    \/ \E n \in Names : DoStop(n)
    \/ \E n \in Names : DoTerminal(n)
    \/ \E n \in Names : DoRun(n)
    \/ \E n \in Names : DoSetCurrent(n)
    \/ SetCurrentRealm
    \/ MainHandleEvent
    \/ \E w \in Workers : CheckIsActive(w)
    \/ \E w \in Workers : StartCheckActive(w)
    \/ \E w \in Workers : GenerateNetworkConfig(w)
    \/ \E w \in Workers : RecordAllocation(w)
    \/ \E w \in Workers : WriteNspawnFile(w)
    \/ \E w \in Workers : WriteServiceFile(w)
    \/ \E w \in Workers : SystemctlStart(w)
    \/ \E w \in Workers : CopySkel(w)
    \/ \E w \in Workers : CopyRealmSkel(w)
    \/ \E w \in Workers : BindPersistentDir(w)
    \/ \E w \in Workers : EmitStarted(w)
    \/ \E w \in Workers : Launch(w)
    \/ \E w \in Workers : SystemctlStop(w)
    \/ \E w \in Workers : RemoveNspawnFile(w)
    \/ \E w \in Workers : RemoveServiceFile(w)
    \/ \E w \in Workers : FreeAllocation(w)
    \/ \E w \in Workers : EmitStopped(w)
    \/ \E w \in Workers : ClearCurrent(w)
    \/ \E w \in Workers : HandleEvent(w)
    \/ \E w \in Workers : Finish(w)

Boundary == BoundaryInit /\ [][BoundaryNext]_vars

\* The event bus alone: threads of the manager emit any of its events, and the
\* registered handler turns each into a signal.
EventBusInit ==
    /\ config = BoundaryConfig
    /\ handlers = TRUE
    /\ Fresh

EventBusNext ==
    \/ \E w \in Workers, ev \in RealmEvents : ManagerEmits(w, ev)
    \/ \E w \in Workers : HandleEvent(w)
    \/ \E w \in Workers : Finish(w)

EventBus == EventBusInit /\ [][EventBusNext]_vars

\* One run of realmsd from the call of DbusServer::start: the realms the
\* supervisor still runs from before are up, none is current, and the loop
\* takes Stop and SetCurrent requests once start() has reached it.
StartupInit ==
    /\ config = BoundaryConfig
    /\ handlers = FALSE
    /\ \E running \in {{}, {"work"}} :
        /\ active = [r \in Realms |-> r \in running]
        /\ allocations = [r \in Realms |-> 0]
        /\ allocated = {}
        /\ nspawn = [r \in Realms |->
                IF r \in running
                THEN NspawnContent(r, SettledAddress(config, running, r), <<>>, FALSE)
                ELSE NoFile]
        /\ service = [r \in Realms |->
                IF r \in running THEN ServiceContent(r, <<>>) ELSE NoFile]
    /\ current = NoRealm
    /\ lock = NoThread
    /\ worker = [w \in Workers |-> Idle]
    /\ main = [MainIdle EXCEPT !.pc = "register_name"]
    /\ handled = 0
    /\ faults = 0
    /\ reply = NoReply
    /\ events = <<>>
    /\ signals = <<>>
    /\ host = {}
    /\ call = NoCall
    /\ entry = NoEntry
    /\ versions = NoVersions

StartupNext ==
    \/ RegisterName
    \/ ReceiveSignalsFrom
    \/ AddEventHandler
    \/ StartEventTask
    \/ SendServiceStarted
    \/ \E r \in Realms : DoStop(r)
    \/ \E r \in Realms : DoSetCurrent(r)
    \/ SetCurrentRealm
    \/ MainHandleEvent
    \/ \E w \in Workers : SystemctlStop(w)
    \/ \E w \in Workers : RemoveNspawnFile(w)
    \/ \E w \in Workers : RemoveServiceFile(w)
    \/ \E w \in Workers : FreeAllocation(w)
    \/ \E w \in Workers : EmitStopped(w)
    \/ \E w \in Workers : ClearCurrent(w)
    \/ \E w \in Workers : HandleEvent(w)
    \/ \E w \in Workers : Finish(w)

Startup == StartupInit /\ [][StartupNext]_vars

\* The allocator by itself.  It keys its table by name and knows nothing else
\* of realms: it is called with the names of the realms and with one more, for
\* zones with and without a pool, and with addresses in and out of the pool.
\* One Stop of a realm without network, or of one in an external namespace, is
\* served meanwhile.
AllocatorZones == {ZoneClear, ZoneMissing}
AllocatorConfig ==
    [r \in Realms |-> IF r = "work" THEN ConfigPrivate ELSE ConfigNetns]

AllocatorInit ==
    /\ config = AllocatorConfig
    /\ handlers = FALSE
    /\ allocations = [n \in Names |-> 0]
    /\ allocated = {}
    /\ lock = NoThread
    /\ nspawn = [r \in Realms |-> NoFile]
    /\ service = [r \in Realms |-> NoFile]
    /\ active = [r \in Realms |-> FALSE]
    /\ current = NoRealm
    /\ worker = [w \in Workers |-> Idle]
    /\ main = MainIdle
    /\ handled = MaxRequests - 1
    /\ faults = MaxFaults
    /\ reply = NoReply
    /\ events = <<>>
    /\ signals = <<>>
    /\ host = {}
    /\ call = NoCall
    /\ entry = NoEntry
    /\ versions = NoVersions

AllocatorNext ==
    \/ \E z \in AllocatorZones, n \in Names : CallAllocateAddressFor(z, n)
    \/ \E z \in AllocatorZones, n \in Names, a \in 1..(PoolSize + 1) :
            CallAllocateReserved(z, n, a)
    \/ \E z \in AllocatorZones, n \in Names : CallFreeAllocationFor(z, n)
    \/ \E r \in Realms : DoStop(r)
    \/ \E w \in Workers : SystemctlStop(w)
    \/ \E w \in Workers : RemoveNspawnFile(w)
    \/ \E w \in Workers : RemoveServiceFile(w)
    \/ \E w \in Workers : FreeAllocation(w)
    \/ \E w \in Workers : EmitStopped(w)
    \/ \E w \in Workers : ClearCurrent(w)
    \/ \E w \in Workers : Finish(w)

Allocator == AllocatorInit /\ [][AllocatorNext]_vars

\* The launcher at work: "work" is a realm with device grants, the host has
\* all or none of the paths the launcher probes, one of them comes or goes,
\* and Starts and Stops of "work" are served meanwhile.
LauncherConfigs ==
    {[r \in Realms |-> IF r = "work" THEN c ELSE ConfigDynamic] :
        c \in {ConfigKvmShared, ConfigGpuPrivate, ConfigGpuCardNetns,
                ConfigCardReserved, ConfigNetnsNoNetwork}}

LauncherInit ==
    /\ config \in LauncherConfigs
    /\ handlers = FALSE
    /\ allocations = [r \in Realms |-> 0]
    /\ allocated = {}
    /\ lock = NoThread
    /\ nspawn = [r \in Realms |-> NoFile]
    /\ service = [r \in Realms |-> NoFile]
    /\ active = [r \in Realms |-> FALSE]
    /\ current = NoRealm
    /\ worker = [w \in Workers |-> Idle]
    /\ main = MainIdle
    /\ handled = 0
    /\ faults = 0
    /\ reply = NoReply
    /\ events = <<>>
    /\ signals = <<>>
    /\ host \in {{}, HostPaths}
    /\ call = NoCall
    /\ entry = NoEntry
    /\ versions = NoVersions

LauncherNext ==
    \/ DoStart("work")
    \/ DoStop("work")
    \/ \E path \in HostPaths : HostChanges(path)
    \/ \E w \in Workers : StartCheckActive(w)
    \/ \E w \in Workers : GenerateNetworkConfig(w)
    \/ \E w \in Workers : RecordAllocation(w)
    \/ \E w \in Workers : WriteNspawnFile(w)
    \/ \E w \in Workers : WriteServiceFile(w)
    \/ \E w \in Workers : SystemctlStart(w)
    \/ \E w \in Workers : EmitStarted(w)
    \/ \E w \in Workers : SystemctlStop(w)
    \/ \E w \in Workers : RemoveNspawnFile(w)
    \/ \E w \in Workers : RemoveServiceFile(w)
    \/ \E w \in Workers : FreeAllocation(w)
    \/ \E w \in Workers : EmitStopped(w)
    \/ \E w \in Workers : ClearCurrent(w)
    \/ \E w \in Workers : Finish(w)

Launcher == LauncherInit /\ [][LauncherNext]_vars

\* One launcher used for more than one build of "work", while the paths it
\* probes come and go.
BuilderInit == LauncherInit

BuilderNext ==
    \/ NewLauncher("t1", "work")
    \/ WriteLaunchConfigFiles("t1")
    \/ DropLauncher("t1")
    \/ \E path \in HostPaths : HostChanges(path)

Builder == BuilderInit /\ [][BuilderNext]_vars

\* The bind mounts a user can put in a realm's config: paths, and items with
\* a line break in them.
BindItems ==
    {<<"/", "a">>, <<"/", "b">>, <<NL>>,
     <<"/", "a", NL, BIND, "/", "b">>}
BindLists == UNION {[1..k -> BindItems] : k \in 0..MaxBinds}
BindConfigs ==
    {[r \in Realms |->
        IF r = "work"
        THEN With(ConfigPrivate, [extra_bindmounts |-> rw,
                                  extra_bindmounts_ro |-> ro])
        ELSE ConfigDynamic] : rw \in BindLists, ro \in BindLists}

\* Starts of a realm with bind mounts of its own.
BindsInit ==
    /\ config \in BindConfigs
    /\ handlers = FALSE
    /\ allocations = [r \in Realms |-> 0]
    /\ allocated = {}
    /\ lock = NoThread
    /\ nspawn = [r \in Realms |-> NoFile]
    /\ service = [r \in Realms |-> NoFile]
    /\ active = [r \in Realms |-> FALSE]
    /\ current = NoRealm
    /\ worker = [w \in Workers |-> Idle]
    /\ main = MainIdle
    /\ handled = MaxRequests - 1
    /\ faults = 0
    /\ reply = NoReply
    /\ events = <<>>
    /\ signals = <<>>
    /\ host = {}
    /\ call = NoCall
    /\ entry = NoEntry
    /\ versions = NoVersions

BindsNext ==
    \/ DoStart("work")
    \/ \E w \in Workers : StartCheckActive(w)
    \/ \E w \in Workers : GenerateNetworkConfig(w)
    \/ \E w \in Workers : RecordAllocation(w)
    \/ \E w \in Workers : WriteNspawnFile(w)
    \/ \E w \in Workers : WriteServiceFile(w)
    \/ \E w \in Workers : SystemctlStart(w)
    \/ \E w \in Workers : EmitStarted(w)
    \/ \E w \in Workers : Finish(w)

Binds == BindsInit /\ [][BindsNext]_vars

\* A realm whose reserved_ip is the gateway of its zone.
ConfigGatewayReserved == With(ConfigReserved, [reserved_ip |-> Gateway])

\* Realms with and without a reserved address, one of them the gateway's.
ReservedConfigs ==
    {[r \in Realms |-> IF r = "work" THEN c ELSE ConfigDynamic] :
        c \in {ConfigGatewayReserved, ConfigReserved}}

ReservedInit ==
    /\ config \in ReservedConfigs
    /\ handlers = FALSE
    /\ Fresh

ReservedNext ==
    \/ \E r \in Realms : DoStart(r)
    \/ \E r \in Realms : DoStop(r)
    \/ \E w \in Workers : StartCheckActive(w)
    \/ \E w \in Workers : GenerateNetworkConfig(w)
    \/ \E w \in Workers : RecordAllocation(w)
    \/ \E w \in Workers : WriteNspawnFile(w)
    \/ \E w \in Workers : WriteServiceFile(w)
    \/ \E w \in Workers : SystemctlStart(w)
    \/ \E w \in Workers : EmitStarted(w)
    \/ \E w \in Workers : SystemctlStop(w)
    \/ \E w \in Workers : RemoveNspawnFile(w)
    \/ \E w \in Workers : RemoveServiceFile(w)
    \/ \E w \in Workers : FreeAllocation(w)
    \/ \E w \in Workers : EmitStopped(w)
    \/ \E w \in Workers : ClearCurrent(w)
    \/ \E w \in Workers : Finish(w)

Reserved == ReservedInit /\ [][ReservedNext]_vars

\* The boot entries citadel-tool names and reads back.
BootEntriesInit ==
    /\ config = [r \in Realms |-> ConfigDynamic]
    /\ handlers = FALSE
    /\ Fresh

BootEntriesNext ==
    \/ NewEntry
    \/ NameEntryFile
    \/ FromFilename

BootEntries == BootEntriesInit /\ [][BootEntriesNext]_vars

\* The kernels citadel-tool finds and orders by version.
KernelsInit ==
    /\ config = [r \in Realms |-> ConfigDynamic]
    /\ handlers = FALSE
    /\ Fresh

KernelsNext ==
    \/ FindKernels
    \/ ParseVersions
    \/ CompareVersions

Kernels == KernelsInit /\ [][KernelsNext]_vars

\* ------------------------------------------------------------------ claims
StartWorkers == {w \in Workers : worker[w].op = "start"}
StopWorkers == {w \in Workers : worker[w].op = "stop"}
HeldAddresses == {allocations[r] : r \in Realms} \ {0}

\* C1: in every reachable state, whatever the interleaving of the Start and
\* Stop workers, no address of the zone is held by two different realms, and
\* the in-use set the allocator checks collisions against is exactly the set of
\* addresses the realms hold.
NoAddressHeldTwice ==
    /\ \A r1, r2 \in Realms :
          r1 # r2 /\ allocations[r1] # 0 => allocations[r1] # allocations[r2]
    /\ allocated = HeldAddresses

\* C1 witness: two Start workers for distinct realms are in flight at once,
\* each was returned an address, and both realms hold theirs.
TwoRealmsAllocatedConcurrently ==
    \E w1, w2 \in StartWorkers :
        /\ worker[w1].realm # worker[w2].realm
        /\ worker[w1].addr # 0 /\ worker[w2].addr # 0
        /\ allocations[worker[w1].realm] = worker[w1].addr
        /\ allocations[worker[w2].realm] = worker[w2].addr

\* C2: every step that reads or writes the zone's table is taken by a worker
\* that holds the allocator's mutex: the allocator's answer is computed as the
\* mutex is acquired (nobody held it), the entry is written by the holder, the
\* free runs as the mutex is acquired, the table changes in no other step, and
\* a Start worker between its allocation and its return is the holder.
TableTouchedOnlyUnderLock ==
    /\ [](\A w \in StartWorkers :
            worker[w].pc \in {"insert", "write_nspawn", "write_service",
                              "systemctl_start", "skel", "realm_skel", "bind"}
            => lock = w)
    /\ [][/\ \A w \in Workers :
              worker[w].pc \in {"allocate", "insert", "free"}
                  /\ worker'[w].pc # worker[w].pc
              => lock = (IF worker[w].pc = "insert" THEN w ELSE NoThread)
          /\ (allocations' # allocations \/ allocated' # allocated)
              => \E w \in Workers : /\ worker[w].pc \in {"insert", "free"}
                                    /\ worker'[w].pc # worker[w].pc]_vars

\* C2 witness: a Stop worker has reached its free while a Start worker holds
\* the mutex, so the free has to wait.
StopWaitsForLock ==
    \E w1 \in StartWorkers, w2 \in StopWorkers :
        lock = w1 /\ worker[w2].pc = "free"

\* C3: the reply of List() never reports more than one realm with status
\* RunningCurrent, and the current pointer is moved onto a realm only by the
\* message loop's own SetCurrent (a worker can only clear it), so a List() that
\* the workers interleave with cannot see two current realms either.
AtMostOneRunningCurrent ==
    /\ [](Cardinality({r \in Realms :
                realm_list[r] = STATUS_REALM_RUNNING_CURRENT}) <= 1)
    /\ [][current' # current /\ current' # NoRealm => main.pc = "set_current"]_vars

\* C3 witness: List() reports one realm RunningCurrent and another one
\* RunningNotCurrent.
OneCurrentOneRunning ==
    \E r1, r2 \in Realms :
        /\ realm_list[r1] = STATUS_REALM_RUNNING_CURRENT
        /\ realm_list[r2] = STATUS_REALM_RUNNING_NOT_CURRENT


Quiescent == main.pc = "idle" /\ \A w \in Workers : worker[w].op = "idle"
Done(w) == worker[w].pc = "done"
Performed(w, step) == \E i \in 1..Len(worker[w].steps) : worker[w].steps[i] = step

\* C4: the realm designated Current is a realm whose service is active: once
\* every Start, Stop and SetCurrent that was requested has run to its end, the
\* current pointer is not on a realm that is not running.
CurrentRealmIsActive ==
    Quiescent /\ current # NoRealm => active[current]

\* C5: a Start that failed at the network allocation or at the writing of one
\* of the two descriptors has issued no supervisor start and left nothing
\* behind: the realm holds no address this attempt allocated and no descriptor
\* this attempt wrote is on disk (no other operation on the realm interfering).
AbortedStartLeavesNothing ==
    \A w \in StartWorkers :
        Done(w) /\ worker[w].failed \in {"allocate", "write_nspawn", "write_service"}
                /\ ~worker[w].overlap
        => /\ ~Performed(w, "systemctl_start")
           /\ worker[w].held = 0 => allocations[worker[w].realm] = 0
           /\ Performed(w, "write_nspawn") => ~nspawn[worker[w].realm].exists

\* C6: Start and Stop return Err whenever the supervisor command exited
\* non-zero or could not be spawned; a Start or Stop that ran the command
\* returns Ok only when it exited with status zero.
SupervisorFailureIsReported ==
    \A w \in Workers :
        Done(w) /\ worker[w].exit \in {"nonzero", "spawn_failed"}
        => worker[w].result = "err"


StopOrder == <<"systemctl_stop", "rm_nspawn", "rm_service", "free", "Stopped">>

\* C7: a Stop that returned Ok has performed, in this order, the supervisor
\* stop, the removal of the nspawn file, the removal of the service file, the
\* free of the allocation and the emission of Stopped; when no other operation
\* on the realm was in flight meanwhile, the realm then holds no address and
\* neither descriptor exists.
SuccessfulStopOrderAndEffect ==
    \A w \in StopWorkers :
        Done(w) /\ worker[w].result = "ok"
        => /\ Len(worker[w].steps) >= 5
           /\ SubSeq(worker[w].steps, 1, 5) = StopOrder
           /\ ~worker[w].overlap
              => /\ allocations[worker[w].realm] = 0
                 /\ ~nspawn[worker[w].realm].exists
                 /\ ~service[worker[w].realm].exists

\* C7 witness: a Stop returned Ok after freeing an address, and another realm
\* has since been allocated that same address.
FreedAddressGivenToAnotherRealm ==
    \E w \in StopWorkers :
        /\ Done(w) /\ worker[w].result = "ok" /\ ~worker[w].overlap
        /\ worker[w].addr # 0
        /\ \E r \in Realms : r # worker[w].realm /\ allocations[r] = worker[w].addr

\* C8: a Start that finds its realm already running returns Ok at once: it
\* has performed no step (no allocation, no supervisor start, no Started) and
\* the table, the descriptors, the units and the current pointer are as before.
StartOfRunningRealmIsNoop ==
    [][\A w \in StartWorkers :
          worker[w].pc = "check_active" /\ active[worker[w].realm]
              /\ worker'[w].pc # "check_active"
          => /\ worker'[w].pc = "done" /\ worker'[w].result = "ok"
             /\ worker'[w].steps = <<>>
             /\ UNCHANGED <<allocations, allocated, nspawn, service, active,
                            current>>]_vars

\* C8 witness: a Start of a running realm that holds an address has returned
\* Ok without having performed a step.
NoopStartReturned ==
    \E w \in StartWorkers :
        /\ Done(w) /\ worker[w].result = "ok" /\ worker[w].steps = <<>>
        /\ active[worker[w].realm] /\ allocations[worker[w].realm] # 0

\* C9: a Start that failed at the supervisor start leaves its realm holding
\* the address it was given (no other operation on the realm interfering); a
\* Start of a realm that already holds an address is given that same address,
\* and entering it does not change the set of addresses in use.
FailedStartKeepsAllocation ==
    /\ [](\A w \in StartWorkers :
            /\ Done(w) /\ worker[w].failed = "systemctl_start" /\ ~worker[w].overlap
               => worker[w].addr # 0 /\ allocations[worker[w].realm] = worker[w].addr
            /\ worker[w].held # 0 => worker[w].addr = worker[w].held)
    /\ [][\A w \in StartWorkers :
            worker[w].pc = "insert" /\ worker'[w].pc # "insert" /\ worker[w].held # 0
            => allocated' = allocated /\ allocations' = allocations]_vars

\* C9 witness: a Start failed at the supervisor start, and a second Start of
\* the same realm, allocating after that failure (the first held the mutex
\* until it failed), has been given the address the first one left held.
RetryReusesAddress ==
    \E w1, w2 \in StartWorkers :
        /\ w1 # w2 /\ worker[w1].realm = worker[w2].realm
        /\ Done(w1) /\ worker[w1].failed = "systemctl_start"
        /\ worker[w2].held # 0 /\ worker[w2].held = worker[w1].addr
        /\ worker[w2].addr = worker[w2].held
        /\ Performed(w2, "allocate")

\* C10: the ephemeral-home setup is best-effort: no Start fails at one of its
\* sub-steps (which would skip the remaining ones), and a Start whose service
\* was started returns Ok.
EphemeralHomeIsBestEffort ==
    \A w \in StartWorkers :
        Done(w) /\ Performed(w, "systemctl_start")
        => worker[w].result = "ok" /\ worker[w].failed = ""

\* The steps of Systemd::start_realm a Start can return Err from.
StartSteps ==
    {"allocate", "write_nspawn", "write_service", "systemctl_start", "skel",
     "realm_skel", "bind"}
Count(seq, x) == Cardinality({i \in 1..Len(seq) : seq[i] = x})

\* C11: Started is emitted only by a Start whose supervisor start succeeded
\* (the command exited with status zero), once, and by no Start that failed;
\* the realm of such a Start, networked and not ephemeral, then holds an
\* address and is reported RunningNotCurrent while it is not the current one
\* (no other operation on the realm interfering).
StartedOnlyAfterSupervisorSuccess ==
    \A w \in StartWorkers :
        /\ Performed(w, "Started")
           => /\ worker[w].exit = "zero"
              /\ Count(worker[w].steps, "Started") = 1
              /\ worker[w].failed = ""
        /\ Done(w) /\ Performed(w, "Started") /\ ~worker[w].overlap
              /\ config[worker[w].realm].network
              /\ ~config[worker[w].realm].ephemeral_home
              /\ current # worker[w].realm
           => /\ allocations[worker[w].realm] # 0
              /\ realm_list[worker[w].realm] = STATUS_REALM_RUNNING_NOT_CURRENT

\* C12: the Stop that finds its realm current sets the pointer to none and
\* emits Current(None), which is sent as RealmCurrent with the empty name; the
\* Stop of a realm that is not the current one leaves the pointer and emits no
\* Current event.
StopOfCurrentClearsCurrent ==
    /\ [][\A w \in StopWorkers :
            worker[w].pc = "clear_current" /\ worker'[w].pc # "clear_current"
            => IF current = worker[w].realm
               THEN /\ current' = NoRealm
                    /\ events' = Append(events, Event("Current", None))
               ELSE current' = current /\ events' = events]_vars
    /\ [](\A i \in 1..Len(signals) :
            events[signals[i].ev] = Event("Current", None)
            => signals[i].msg = [member |-> "RealmCurrent", arg |-> ""])
    /\ [](\A w \in StopWorkers :
            Done(w) /\ Performed(w, "Current(None)")
            => \E i \in 1..Len(signals) :
                    events[signals[i].ev] = Event("Current", None))

\* C12 witness: a Stop of the current realm has ended: the pointer is none
\* and RealmCurrent("") was given to the connection.
CurrentNoneSignalled ==
    \E w \in StopWorkers :
        /\ Done(w) /\ worker[w].result = "ok" /\ Performed(w, "Current(None)")
        /\ current = NoRealm
        /\ \E i \in 1..Len(signals) :
                signals[i].msg = [member |-> "RealmCurrent", arg |-> ""]

\* C13: SetCurrent with a name of no realm, or of a realm that is not running,
\* is answered with the empty reply and changes nothing: not the pointer, not
\* the events emitted, not the units, the table or the descriptors, and no
\* thread is started; and the loop goes on to reassign the pointer only for a
\* realm that is running.
SetCurrentOfNotRunningIsNoop ==
    [][/\ \A n \in Names :
            /\ main.pc = "idle" /\ handled' # handled
            /\ main'.pc = "idle" /\ worker' = worker
            /\ reply'.method = "set_current" /\ reply'.name = n
            => /\ reply'.kind = "empty"
               /\ UNCHANGED <<current, events, signals, active, allocations,
                              allocated, nspawn, service, lock>>
       /\ main.pc = "idle" /\ main'.pc = "set_current"
            => main'.realm \in Realms /\ active[main'.realm]]_vars

\* C13 witness: SetCurrent of a realm that is not running was answered with
\* the empty reply; no event was emitted and the realm is neither running nor
\* current.
SetCurrentRefusedQuietly ==
    \E n \in Realms :
        /\ reply = Reply("set_current", n, "empty")
        /\ events = <<>> /\ signals = <<>>
        /\ ~active[n] /\ current # n
        /\ \A w \in Workers : worker[w].op = "idle"

\* C14: the SetCurrent of a running realm reassigns the pointer to it and
\* emits Current(Some(realm)); List() then reports it with code 2 while it
\* runs, and the realm that was current before, if it runs, with code 1.
SetCurrentReassigns ==
    [][main.pc = "set_current" /\ main'.pc # "set_current"
       => /\ current' = main.realm
          /\ events' = Append(events, Event("Current", Some(main.realm)))
          /\ active'[main.realm]
             => realm_list'[main.realm] = STATUS_REALM_RUNNING_CURRENT
          /\ \A p \in Realms :
                p = current /\ p # main.realm /\ active'[p]
                => realm_list'[p] = STATUS_REALM_RUNNING_NOT_CURRENT]_vars

\* C14 witness: the pointer was set on one running realm and then on another:
\* List() reports the second with code 2 and the first with code 1.
SecondSetCurrentTakesOver ==
    \E p, r \in Realms :
        /\ p # r
        /\ events = <<Event("Current", Some(p)), Event("Current", Some(r))>>
        /\ realm_list[r] = STATUS_REALM_RUNNING_CURRENT
        /\ realm_list[p] = STATUS_REALM_RUNNING_NOT_CURRENT

\* C15: the step that starts a worker for Start, Stop, Terminal or Run also
\* produces the empty reply and leaves the loop free for the next request,
\* before the worker has done anything; and the reply is the loop's alone: no
\* step of a worker, whatever its outcome, changes it.
DispatchIsAcknowledgedAtOnce ==
    [][/\ \A w \in Workers :
            worker[w].op = "idle"
                /\ worker'[w].op \in {"start", "stop", "terminal", "run"}
            => /\ main'.pc = "idle"
               /\ reply' = Reply(worker'[w].op, worker'[w].realm, "empty")
               /\ worker'[w].steps = <<>> /\ worker'[w].result = "none"
       /\ reply' # reply => handled' # handled \/ main.pc # "idle"]_vars

\* C15 witness: the request of an operation that has since failed was answered
\* with the empty reply, and the loop is idle while another worker is still
\* in progress.
AcknowledgedThenFailed ==
    \E w1, w2 \in Workers :
        /\ w1 # w2
        /\ Done(w1) /\ worker[w1].result = "err"
        /\ worker[w2].op \in {"start", "stop", "terminal", "run"} /\ ~Done(w2)
        /\ main.pc = "idle"
        /\ reply = Reply(worker[w2].op, worker[w2].realm, "empty")

\* C16: a Start, Stop, Terminal or Run that names no realm of the collection
\* is answered with a fault by the loop itself: no worker is started and
\* nothing else changes.
UnknownRealmIsFaulted ==
    [][main.pc = "idle" /\ handled' # handled /\ main'.pc = "idle"
            /\ reply'.name \notin Realms
            /\ reply'.method \in {"start", "stop", "terminal", "run"}
       => /\ reply'.kind = "fault"
          /\ UNCHANGED <<worker, main, allocations, allocated, lock, nspawn,
                         service, active, current, events, signals>>]_vars

\* C16 witness: the last request was a Run of an unknown name and was answered
\* with a fault, and no thread runs.
UnknownRunFaulted ==
    /\ reply = Reply("run", "ghost", "fault")
    /\ \A w \in Workers : worker[w].op = "idle"
    /\ events = <<>>

LaunchWorkers == {w \in Workers : worker[w].op \in {"terminal", "run"}}

\* C17: a Terminal or Run worker whose start_realm failed ends without
\* launching; one that reaches the launch either saw the realm running and
\* performed no step of a Start, or saw it not running and had start_realm
\* return Ok before (Started emitted, or nothing to do because the realm had
\* come up meanwhile).
LaunchOnlyAfterStart ==
    \A w \in LaunchWorkers :
        /\ worker[w].failed \in StartSteps
           => worker[w].pc = "done" /\ ~Performed(w, "launch")
        /\ worker[w].pc = "launch" \/ Performed(w, "launch")
           => /\ worker[w].failed \notin StartSteps
              /\ worker[w].steps[1] = "active"
                 => \A i \in 1..Len(worker[w].steps) :
                        worker[w].steps[i] \in {"active", "launch"}
              /\ worker[w].steps[1] = "inactive"
                 => \/ Performed(w, "Started")
                    \/ \A i \in 1..Len(worker[w].steps) :
                            worker[w].steps[i] \in {"inactive", "launch"}

\* C17 witness: a Terminal or Run found its realm not running, started it
\* (Started was emitted) and then launched.
LaunchedAfterImplicitStart ==
    \E w \in LaunchWorkers :
        /\ Len(worker[w].steps) > 0 /\ worker[w].steps[1] = "inactive"
        /\ Performed(w, "systemctl_start") /\ Performed(w, "Started")
        /\ Done(w) /\ Performed(w, "launch")

\* C18: the reply of List() has one entry per realm of the collection, and the
\* entry is 2 exactly when the realm is active and current, 1 exactly when it
\* is active and not current, 0 exactly when it is not active; it is a function
\* of what the supervisor and the manager answer at the time of the query.
ListReportsDerivedStatus ==
    /\ DOMAIN realm_list = Realms
    /\ \A r \in Realms :
        /\ realm_list[r] = STATUS_REALM_RUNNING_CURRENT
           <=> (active[r] /\ current = r)
        /\ realm_list[r] = STATUS_REALM_RUNNING_NOT_CURRENT
           <=> (active[r] /\ current # r)
        /\ realm_list[r] = STATUS_REALM_NOT_RUNNING <=> ~active[r]

\* C18 witness: with every operation ended, the current realm is not active
\* and List() reports it, like the other realm, with 0.
CurrentButInactiveReportsZero ==
    \E r \in Realms :
        /\ Quiescent
        /\ current = r /\ ~active[r]
        /\ realm_list = [x \in Realms |-> STATUS_REALM_NOT_RUNNING]

\* The notification the interface sends for an event.
NotificationOf(ev) ==
    [member |-> CASE ev.kind = "Started" -> "RealmStarted"
                  [] ev.kind = "Stopped" -> "RealmStopped"
                  [] ev.kind = "New" -> "RealmNew"
                  [] ev.kind = "Removed" -> "RealmRemoved"
                  [] ev.kind = "Current" -> "RealmCurrent",
     arg |-> IF ev.realm = None THEN "" ELSE ev.realm[1]]

\* The events whose handler has not yet given its message to the connection.
InHandler ==
    {worker[w].ev : w \in {x \in Workers : worker[x].pc = "handle_event"}}
    \cup (IF main.pc = "handle_event" THEN {main.ev} ELSE {})

\* C19: every event emitted is turned into exactly one message given to the
\* connection, the one the interface names for it, carrying the realm's name
\* or the empty string: no message is built for no event, none twice for one
\* event, and every event whose handler has returned has its message.
EveryEventOneSignal ==
    /\ \A i \in 1..Len(signals) :
        /\ signals[i].ev \in 1..Len(events)
        /\ signals[i].msg = NotificationOf(events[signals[i].ev])
    /\ \A i, j \in 1..Len(signals) : i # j => signals[i].ev # signals[j].ev
    /\ \A e \in 1..Len(events) :
        e \in InHandler \/ \E i \in 1..Len(signals) : signals[i].ev = e

\* C19 witness: a Removed event and Current(None) have both been handled:
\* RealmRemoved with the realm's name and RealmCurrent with the empty name
\* were given to the connection.
RemovedAndCurrentNoneSignalled ==
    /\ InHandler = {}
    /\ \E i, j \in 1..Len(signals) :
        /\ events[signals[i].ev] = Event("Removed", Some("work"))
        /\ signals[i].msg = [member |-> "RealmRemoved", arg |-> "work"]
        /\ events[signals[j].ev] = Event("Current", None)
        /\ signals[j].msg = [member |-> "RealmCurrent", arg |-> ""]

\* C20: the notifications of one realm are given to the connection in the
\* order in which their events were emitted.
PerRealmOrderPreserved ==
    \A i, j \in 1..Len(signals) :
        i < j /\ signals[i].msg.arg = signals[j].msg.arg
              /\ signals[i].msg.arg # ""
        => signals[i].ev < signals[j].ev

\* The ServiceStarted signals given to the connection so far.
ServiceStartedSent ==
    {i \in 1..Len(signals) : signals[i].msg = create_signal("ServiceStarted")}

\* C21: ServiceStarted is given to the connection exactly once in a run that
\* reaches the loop: not before start() has registered the name and the event
\* handler, once by the time the loop is entered and any request is taken, and
\* never a second time.
ServiceStartedExactlyOnce ==
    /\ Cardinality(ServiceStartedSent) <= 1
    /\ main.pc \in StartupPcs \cup {"exited"}
       => /\ ServiceStartedSent = {}
          /\ handled = 0 /\ \A w \in Workers : worker[w].op = "idle"
    /\ main.pc \notin StartupPcs \cup {"exited"}
       => Cardinality(ServiceStartedSent) = 1
    /\ handled > 0 => Cardinality(ServiceStartedSent) = 1

\* C21 witness: the loop has taken every request of the run and other signals
\* were sent after ServiceStarted, which is still the only one of its kind.
ServiceStartedThenRequests ==
    /\ handled = MaxRequests
    /\ Cardinality(ServiceStartedSent) = 1
    /\ \E i, j \in 1..Len(signals) :
        /\ i < j /\ i \in ServiceStartedSent
        /\ signals[j].msg.member = "RealmStopped"

\* A direct call of the allocator returns in this step.
Returns(op) == call'.n # call.n /\ call'.op = op
\* The names that hold `addr` in the zone's table.
HoldersOf(addr) == {n \in DOMAIN allocations : allocations[n] = addr}
\* The addresses of the pool a realm that holds none can be given.
Available == {a \in Pool : a # Gateway /\ HoldersOf(a) = {}}

\* C22: allocate_address_for called for a name that holds an address in the
\* zone returns that address and leaves the table as it is, however many
\* times it is called and whatever the other names were allocated meanwhile.
AllocateAddressForIsIdempotent ==
    [][Returns("allocate_address_for") /\ call'.zone = ZoneClear
            /\ allocations[call'.realm] # 0
       => /\ call'.err = "" /\ call'.ret = allocations[call'.realm]
          /\ UNCHANGED <<allocations, allocated>>]_vars

\* C22 witness: "work" was allocated an address, then another name, then
\* "work" again, which was returned the address it held.
SecondAllocationReturnsTheFirst ==
    /\ call.n = 3 /\ call.op = "allocate_address_for" /\ call.realm = "work"
    /\ call.prev_op = "allocate_address_for" /\ call.prev_realm = "other"
    /\ call.prev_ret = Gateway + 2
    /\ call.err = "" /\ call.ret = Gateway + 1
    /\ allocations["work"] = Gateway + 1

\* C23: for a name that holds no address, allocate_address_for returns the
\* lowest address of the pool that is neither the gateway nor in use, and
\* enters it for the name; it fails with ZoneUnknown for a zone without pool
\* and with PoolExhausted when no such address is left, and then leaves the
\* table as it is.
AllocatesLowestFreeAddress ==
    [][Returns("allocate_address_for")
       => IF call'.zone # ZoneClear
          THEN call'.err = "ZoneUnknown" /\ UNCHANGED <<allocations, allocated>>
          ELSE allocations[call'.realm] = 0
               => IF Available = {}
                  THEN /\ call'.err = "PoolExhausted"
                       /\ UNCHANGED <<allocations, allocated>>
                  ELSE /\ call'.err = "" /\ call'.ret \in Available
                       /\ \A a \in Available : call'.ret <= a
                       /\ allocations' =
                            [allocations EXCEPT ![call'.realm] = call'.ret]
                       /\ allocated' = allocated \cup {call'.ret}]_vars

\* C23 witness: every address but the gateway is held, and a name that holds
\* none was refused with PoolExhausted.
PoolExhaustedReturned ==
    /\ call.op = "allocate_address_for" /\ call.err = "PoolExhausted"
    /\ allocations[call.realm] = 0
    /\ \A a \in Pool \ {Gateway} : HoldersOf(a) # {}

\* C24: allocate_reserved fails with OutOfRange for an address outside the
\* pool and with AddressInUse for one that another name holds, and leaves the
\* table as it is; for an address the name holds itself, or that is free, it
\* returns the address, which the name then holds, the other names keeping
\* theirs.
ReservationConflictIsRefused ==
    [][Returns("allocate_reserved") /\ call'.zone = ZoneClear
       => IF call'.addr \notin Pool
          THEN call'.err = "OutOfRange" /\ UNCHANGED <<allocations, allocated>>
          ELSE IF HoldersOf(call'.addr) \ {call'.realm} # {}
          THEN call'.err = "AddressInUse" /\ UNCHANGED <<allocations, allocated>>
          ELSE /\ call'.err = "" /\ call'.ret = call'.addr
               /\ allocations' = [allocations EXCEPT ![call'.realm] = call'.addr]
               /\ allocations[call'.realm] = call'.addr
                  => UNCHANGED <<allocations, allocated>>]_vars

\* C24 witness: a name was refused, with AddressInUse, the address another
\* name holds, and that name still holds it.
ReservedAddressOfAnotherRefused ==
    /\ call.op = "allocate_reserved" /\ call.err = "AddressInUse"
    /\ \E n \in DOMAIN allocations :
            n # call.realm /\ allocations[n] = call.addr
    /\ allocations[call.realm] # call.addr

\* C25: free_allocation_for succeeds, removes the name's entry when there is
\* one and changes nothing when there is none; an allocate_reserved of the
\* address just freed, by another name, succeeds; and the free of a Stop never
\* fails and leaves the entries of the other names as they are.
FreeThenReallocate ==
    [][/\ Returns("free_allocation_for")
          => /\ call'.err = ""
             /\ IF call'.zone = ZoneClear /\ allocations[call'.realm] # 0
                THEN /\ call'.ret = allocations[call'.realm]
                     /\ allocations' = [allocations EXCEPT ![call'.realm] = 0]
                     /\ allocated' = allocated \ {call'.ret}
                ELSE UNCHANGED <<allocations, allocated>>
       /\ Returns("allocate_reserved") /\ call.op = "free_allocation_for"
              /\ call.ret # 0 /\ call'.addr = call.ret
              /\ call'.zone = call.zone /\ call'.realm # call.realm
          => /\ call'.err = "" /\ call'.ret = call'.addr
             /\ allocations'[call'.realm] = call'.addr
       /\ \A w \in StopWorkers :
            worker[w].pc = "free" /\ worker'[w].pc # "free"
            => /\ worker'[w].pc = "emit_stopped" /\ worker'[w].failed = ""
               /\ \A n \in DOMAIN allocations \ {worker[w].realm} :
                      allocations'[n] = allocations[n]
               /\ allocations'[worker[w].realm] = 0
               /\ allocations[worker[w].realm] = 0
                  => UNCHANGED <<allocations, allocated>>]_vars

\* C25 witness: an address was freed and then reserved by another name, and
\* the Stop of a realm that held no address has returned Ok.
FreedAddressReservedByAnother ==
    /\ call.op = "allocate_reserved" /\ call.err = ""
    /\ call.prev_op = "free_allocation_for" /\ call.prev_ret = call.addr
    /\ call.prev_realm # call.realm
    /\ allocations[call.realm] = call.addr /\ allocations[call.prev_realm] = 0
    /\ \E w \in StopWorkers :
            Done(w) /\ worker[w].result = "ok" /\ worker[w].addr = 0

\* A worker writes the nspawn file, or the service file, in this step.
WritesNspawn(w) == worker[w].pc = "write_nspawn" /\ worker'[w].pc = "write_service"
WritesService(w) ==
    worker[w].pc = "write_service" /\ worker'[w].pc = "systemctl_start"

\* C26: the nspawn file written for a realm with network and without external
\* namespace carries the address the allocator holds for the realm as
\* IFCONFIG_IP, the gateway of the zone as IFCONFIG_GW and the directive of the
\* managed zone; the one written for a realm without network carries the
\* private-network directive and neither address nor gateway.
NetworkDirectiveCarriesAllocation ==
    [][\A w \in Workers :
        WritesNspawn(w)
        => LET r == worker[w].realm
               c == config[r]
               f == nspawn'[r]
           IN /\ f.exists
              /\ c.network /\ ~c.has_netns
                 => /\ f.net = "zone"
                    /\ f.ip # 0 /\ f.ip = allocations[r]
                    /\ f.gw = Gateway
              /\ ~c.network
                 => f.net = "private" /\ f.ip = 0 /\ f.gw = 0]_vars

\* C26 witness: a Start of a realm with network has ended: its nspawn file
\* names the managed zone, the gateway and the address the realm holds.
NspawnNamesHeldAddress ==
    \E w \in StartWorkers :
        LET r == worker[w].realm IN
        /\ Done(w) /\ worker[w].result = "ok"
        /\ config[r].network /\ ~config[r].has_netns
        /\ allocations[r] # 0 /\ allocations[r] # Gateway
        /\ nspawn[r].exists /\ nspawn[r].net = "zone"
        /\ nspawn[r].ip = allocations[r] /\ nspawn[r].gw = Gateway

\* C27: for a realm whose config sets netns, whatever its network flag, the
\* nspawn file has no network directive and no address, and no address is
\* allocated; the start command of the service file carries the
\* network-namespace-path argument exactly for the realms that set netns.
NetnsRealmHasNoNetworkDirective ==
    \A r \in Realms :
        /\ nspawn[r].exists /\ config[r].has_netns
           => nspawn[r].net = "" /\ nspawn[r].ip = 0 /\ nspawn[r].gw = 0
        /\ service[r].exists => service[r].netns = config[r].has_netns
        /\ config[r].has_netns => allocations[r] = 0

\* The devices a realm can be granted, and the elements of a list.
Devices == {DEV_KVM, DEV_RENDER, DEV_CARD0}
Range(seq) == {seq[i] : i \in 1..Len(seq)}

\* The config grants the device: by the flag of that device alone, and as
\* add_devices reads the flags (the card node only together with the gpu).
GrantedByFlag(r, d) ==
    CASE d = DEV_KVM -> config[r].kvm
      [] d = DEV_RENDER -> config[r].gpu
      [] d = DEV_CARD0 -> config[r].gpu_card0
GrantedWithGpu(r, d) ==
    CASE d = DEV_KVM -> config[r].kvm
      [] d = DEV_RENDER -> config[r].gpu
      [] d = DEV_CARD0 -> config[r].gpu /\ config[r].gpu_card0

\* C28 as stated: the descriptors written have a bind (and a DeviceAllow) for
\* a device exactly when the flag of that device is set and the device node
\* existed when the launcher probed the host; no Start fails at the
\* generation of the descriptors.
DeviceBoundIffFlagAndPresent ==
    /\ [][\A w \in Workers :
            LET r == worker[w].realm
                bound == {d \in Devices :
                            GrantedByFlag(r, d) /\ d \in worker[w].probed}
            IN /\ WritesNspawn(w) => Range(nspawn'[r].devices) = bound
               /\ WritesService(w) => Range(service'[r].devices) = bound]_vars
    /\ [](\A w \in StartWorkers : worker[w].failed # "allocate")

\* C28 as amended: the same, the card node counting as granted only when the
\* gpu is granted as well; and no device is bound twice.
DeviceBoundIffGrantedAndPresent ==
    /\ [][\A w \in Workers :
            LET r == worker[w].realm
                bound == {d \in Devices :
                            GrantedWithGpu(r, d) /\ d \in worker[w].probed}
            IN /\ WritesNspawn(w)
                  => /\ Range(nspawn'[r].devices) = bound
                     /\ Len(nspawn'[r].devices) = Cardinality(bound)
               /\ WritesService(w)
                  => /\ Range(service'[r].devices) = bound
                     /\ Len(service'[r].devices) = Cardinality(bound)]_vars
    /\ [](\A w \in StartWorkers : worker[w].failed # "allocate")

\* C28 witness: a realm granted the gpu and its card node was started while
\* the render node existed and the card node did not: the Start returned Ok
\* and both descriptors name the render node alone.
AbsentCardNodeSkipped ==
    \E w \in StartWorkers :
        LET r == worker[w].realm IN
        /\ Done(w) /\ worker[w].result = "ok"
        /\ config[r].gpu /\ config[r].gpu_card0
        /\ DEV_RENDER \in worker[w].probed /\ DEV_CARD0 \notin worker[w].probed
        /\ nspawn[r].devices = <<DEV_RENDER>>
        /\ service[r].devices = <<DEV_RENDER>>

\* The Start workers whose launcher has generated both descriptors, and the
\* two descriptors it generated.
BuiltBy == {w \in StartWorkers : Performed(w, "write_service")}
Built(w) ==
    <<NspawnContent(worker[w].realm, worker[w].addr, worker[w].devices,
                    worker[w].shared),
      ServiceContent(worker[w].realm, worker[w].devices)>>

\* C29 as stated: two builds for the same realm that found the same device
\* nodes on the host and the same table in the allocator generated the same
\* two descriptors.
SameDevicesSameDescriptors ==
    \A w1, w2 \in BuiltBy :
        /\ worker[w1].realm = worker[w2].realm
        /\ worker[w1].probed \cap Devices = worker[w2].probed \cap Devices
        /\ worker[w1].table = worker[w2].table
        => Built(w1) = Built(w2)

\* C29 as amended: two builds for the same realm that found the same paths on
\* the host, the shared directory among them, and the same table in the
\* allocator generated the same two descriptors.
SameHostSameDescriptors ==
    \A w1, w2 \in BuiltBy :
        /\ worker[w1].realm = worker[w2].realm
        /\ worker[w1].probed = worker[w2].probed
        /\ worker[w1].table = worker[w2].table
        => Built(w1) = Built(w2)

\* C29 witness: a realm with network, a device and the shared directory was
\* built twice from the same table, with a Stop in between, on the same host:
\* the descriptors are the same, device, shared directory and address included.
RebuiltTheSame ==
    \E w1, w2 \in BuiltBy :
        /\ w1 # w2 /\ worker[w1].realm = worker[w2].realm
        /\ worker[w1].probed = worker[w2].probed
        /\ worker[w1].table = worker[w2].table
        /\ worker[w1].table = [r \in Realms |-> 0]
        /\ worker[w1].devices # <<>> /\ worker[w1].shared
        /\ worker[w1].addr # 0
        /\ Built(w1) = Built(w2)

\* C30: the generation of the descriptors, from the launcher's first step to
\* the writing of the second file, leaves the allocator's table as it is.
DescriptorGenerationLeavesTable ==
    [][\A w \in Workers :
        worker[w].pc \in {"allocate", "insert", "write_nspawn", "write_service"}
            /\ worker'[w].pc # worker[w].pc
        => UNCHANGED <<allocations, allocated>>]_vars

\* ---------------------------------------------------- claims: citadel-tool
\* The name ends in a dot and a decimal number.
NumericTail(str) ==
    \E i \in Positions(str, ".") :
        /\ i < Len(str)
        /\ \A j \in (i + 1)..Len(str) : IsDigit(str[j])

\* The file name of the entry without its last ".conf".
Stem(e) == SubSeq(BootEntryPath(e), 1, Len(BootEntryPath(e)) - Len(CONF))

\* The file name stands for these fields only: the name does not itself look
\* like name.index, and what precedes the last ".conf" does not end in ".conf".
ReadsBackAs(e) ==
    /\ ~(e.index = None /\ NumericTail(e.name))
    /\ ~EndsWith(Stem(e), CONF)

\* C31 (as stated): for every name (dots allowed, no '+'), optional index and
\* optional boot count, parse_filename of the file name that path() builds
\* returns exactly (name, index, boot_count).
ParseFilenameInvertsPath ==
    entry.pc = "parsed" => entry.parsed = entry.fields

\* C31 (amended): parse_filename of the file name that path() builds returns
\* exactly (name, index, boot_count) for every name (dots allowed, no '+')
\* that, when there is no index, does not end in a dot and a decimal number,
\* every optional index and optional boot count, provided the file name
\* without its last ".conf" does not end in ".conf" again.
ParseFilenameInvertsPathOfPlainNames ==
    entry.pc = "parsed" /\ ReadsBackAs(entry.fields)
        => entry.parsed = entry.fields

\* An entry b.2 with index 10 and boot count 2-2 was named b.2.10+2-2.conf and
\* read back.
DottedNameWithIndexReadBack ==
    /\ entry.pc = "parsed"
    /\ entry.fields = BootEntryNew(<<"b", ".", "2">>, Some(10), Some(<<"2", "-", "2">>))
    /\ entry.filename = <<"b", ".", "2", ".", "1", "0", "+", "2", "-", "2">> \o CONF
    /\ entry.parsed = entry.fields

\* The version string of a kernel's path: what follows "/boot/bzImage-".
Raw(p) == SubSeq(p, Len(BOOT_BZIMAGE) + 1, Len(p))
AllDigits(str) == str # EMPTY /\ \A i \in 1..Len(str) : IsDigit(str[i])

\* version.major or version.major.minor, every part a number.
WellFormed(str) ==
    /\ Len(split(str, ".")) \in {2, 3}
    /\ \A i \in 1..Len(split(str, ".")) : AllDigits(split(str, ".")[i])

\* (version, major, minor, revision), a missing part below every number.
Key(v) ==
    <<v.version, v.major,
      IF v.minor = None THEN -1 ELSE v.minor[1],
      IF v.revision = None THEN -1 ELSE v.revision[1]>>

LexLess(k, l) ==
    \E i \in 1..4 : k[i] < l[i] /\ \A j \in 1..(i - 1) : k[j] = l[j]

\* The versions the strings at hand parse to, and their neighbours.
KernelVersions ==
    [version : {5, 8}, major : {5, 8}, minor : {None, Some(5), Some(8)},
     revision : {None, Some(1)}]

\* C32: the KernelVersion values parsed from version strings are totally
\* ordered, lexicographically by (version, major, minor, revision); a missing
\* minor orders below every present minor; a suffix after '-' that is no number
\* is parsed as no revision, the version is not rejected for it.
KernelVersionsAreOrdered ==
    /\ versions.pc = "compared" =>
         LET a == versions.va[1]
             b == versions.vb[1]
         IN  /\ (versions.ord = "Less") = LexLess(Key(a), Key(b))
             /\ (versions.ord = "Greater") = LexLess(Key(b), Key(a))
             /\ (versions.ord = "Equal") = (a = b)
             /\ (versions.ord = "Less") = (cmp(b, a) = "Greater")
             /\ \A c \in KernelVersions :
                    cmp(a, b) # "Greater" /\ cmp(b, c) # "Greater"
                        => cmp(a, c) # "Greater"
             /\ a.version = b.version /\ a.major = b.major
                  /\ a.minor = None /\ b.minor # None
                    => versions.ord = "Less"
    /\ versions.pc \in {"parsed", "compared"} =>
         LET parts == split(Raw(versions.a), "-")
             fields == split(parts[1], ".")
         IN  WellFormed(parts[1]) /\ Len(parts) >= 2 /\ ~AllDigits(parts[2])
                => versions.va =
                     Some([version |-> Decimal(fields[1]),
                           major |-> Decimal(fields[2]),
                           minor |-> IF Len(fields) = 3
                                     THEN Some(Decimal(fields[3])) ELSE None,
                           revision |-> None])

\* /boot/bzImage-5.8-x parsed as 5.8 and was found older than /boot/bzImage-5.8.8.
SuffixedVersionOrderedBelowMinor ==
    /\ versions.pc = "compared"
    /\ Raw(versions.a) = <<"5", ".", "8", "-", "x">>
    /\ Raw(versions.b) = <<"5", ".", "8", ".", "8">>
    /\ versions.va = Some([version |-> 5, major |-> 8, minor |-> None,
                           revision |-> None])
    /\ versions.ord = "Less"

\* ------------------------------------------------ claims: start and stop
\* The worker is inside setup_ephemeral_home.
InEphemeralSetup(w) ==
    worker[w].op \in StartOps /\ worker[w].pc \in {"skel", "realm_skel", "bind"}

\* C33: setup_ephemeral_home (skeleton copies, persistent-dir binds) runs only
\* after the realm's service is confirmed started: never for a Start whose
\* supervisor start command failed or exited non-zero, and never for a realm
\* whose config does not set ephemeral_home.
EphemeralHomeOnlyAfterConfirmedStart ==
    \A w \in Workers :
        InEphemeralSetup(w) =>
            /\ worker[w].exit = "zero"
            /\ config[worker[w].realm].ephemeral_home

\* A build (a call of write_launch_config_files) is made in this step.
Builds(w) ==
    \/ worker[w].pc = "allocate" /\ worker'[w].pc # "allocate"
    \/ worker[w].op = "build" /\ worker'[w].op = "build"
         /\ worker'[w].steps # worker[w].steps

\* C34: every descriptor build probes the devices again: the devices a build
\* uses are those granted that exist on the host at the time of that build,
\* also when an earlier build on the same builder found other ones.
EveryBuildProbesDevices ==
    [][\A w \in Workers :
          Builds(w) => worker'[w].devices = add_devices(worker'[w].realm)]_vars

\* The descriptors of one Start attempt: what the worker's launcher has when
\* it writes, the Bind= lines it writes and the DeviceAllow= lines it writes.
AllowLines(granted(_, _)) ==
    \A w \in Workers :
          LET r == worker[w].realm
              due == {d \in Devices : granted(r, d) /\ d \in worker[w].probed}
          IN /\ WritesNspawn(w) => nspawn'[r].devices = worker[w].devices
             /\ WritesService(w)
                  => /\ Len(service'[r].devices) = Cardinality(due)
                     /\ Range(service'[r].devices) = due
                     /\ Range(service'[r].devices) = Range(worker[w].devices)
                     /\ nspawn[r].exists
                          => Range(nspawn[r].devices)
                               = Range(service'[r].devices)

\* C35 (as stated): in the descriptors of one Start attempt the service
\* descriptor has exactly one device-allow line per granted and present
\* device, and the devices allowed are the devices bound in the container
\* descriptor.
OneAllowLinePerFlaggedDevice == [][AllowLines(GrantedByFlag)]_vars

\* C35 (amended): the same, the gpu card node counting as granted only when
\* the config sets gpu_card0 together with gpu.
OneAllowLinePerGrantedDevice == [][AllowLines(GrantedWithGpu)]_vars

\* A realm granted the gpu and its card node was started on a host that has
\* both nodes: both are bound, in the order of probing, and both are allowed.
RenderAndCardBoundAndAllowed ==
    \E w \in StartWorkers :
        LET r == worker[w].realm IN
        /\ Done(w) /\ worker[w].result = "ok"
        /\ nspawn[r].exists /\ service[r].exists
        /\ nspawn[r].devices = <<DEV_RENDER, DEV_CARD0>>
        /\ service[r].devices = <<DEV_RENDER, DEV_CARD0>>

\* The lines of a text: what each '\n' ends.
Lines(text) ==
    LET parts == split(text, NL) IN SubSeq(parts, 1, Len(parts) - 1)

NewlineFree(item) == Positions(item, NL) = {}

RECURSIVE LinesOf(_, _)
\* One line per newline-free item: the key, then the item.
LinesOf(key, items) ==
    IF items = <<>> THEN <<>>
    ELSE (IF NewlineFree(Head(items)) THEN <<(<<key>> \o Head(items))>> ELSE <<>>)
         \o LinesOf(key, Tail(items))

NeedsAddress(r) == config[r].network /\ ~config[r].has_netns

\* The realm is as a Start left it (up), or as a Stop left it: service active
\* or not, descriptors present or not, address held or not.
RealmSettled(r, up) ==
    /\ active[r] = up
    /\ nspawn[r].exists = up
    /\ service[r].exists = up
    /\ (allocations[r] # 0) = (up /\ NeedsAddress(r))

\* A Start and a Stop of realm r have run at the same time and both returned
\* Ok, and the host made nothing fail.
StartAndStopRaced(r) ==
    /\ faults = 0
    /\ \E w1 \in Workers, w2 \in Workers :
        /\ worker[w1].op = "start" /\ worker[w2].op = "stop"
        /\ worker[w1].realm = r /\ worker[w2].realm = r
        /\ Done(w1) /\ Done(w2)
        /\ worker[w1].result = "ok" /\ worker[w2].result = "ok"
        /\ worker[w1].overlap /\ worker[w2].overlap

\* C37: when a Start and a Stop of the same realm run concurrently, the state
\* that results (service active or not, descriptors present or not, address
\* held or not) is the state of Start then Stop or of Stop then Start; no
\* interleaving leaves an active service whose address is freed or whose
\* descriptors are deleted.
ConcurrentStartStopIsSerial ==
    \A r \in Realms :
        StartAndStopRaced(r) => RealmSettled(r, TRUE) \/ RealmSettled(r, FALSE)

\* The address realm r was launched with: the IFCONFIG_IP of its descriptor.
LaunchedWith(r) == IF nspawn[r].exists THEN nspawn[r].ip ELSE 0

\* C38: after any interleaving of Starts and Stops, no two realms whose
\* services are active at the same time in the same zone were launched with
\* the same address in their descriptors.
ActiveRealmsHaveDistinctAddresses ==
    \A r1, r2 \in Realms :
        /\ r1 # r2
        /\ active[r1] /\ active[r2]
        /\ config[r1].network_zone = config[r2].network_zone
        /\ LaunchedWith(r1) # 0
        => LaunchedWith(r1) # LaunchedWith(r2)

\* C39: every Stop that has issued the supervisor stop command ends with the
\* realm holding no address in its zone, the Stop that fails afterwards at the
\* removal of a descriptor file included.
StopNeverLeavesAddress ==
    \A w \in StopWorkers :
        Done(w) /\ Performed(w, "systemctl_stop") /\ ~worker[w].overlap
            => allocations[worker[w].realm] = 0

\* The descriptor of realm r gives the realm the address of its gateway.
AddressIsGateway(r) ==
    nspawn[r].exists /\ nspawn[r].ip # 0 /\ nspawn[r].ip = nspawn[r].gw

\* C40 (as stated): in every reachable state of the allocator no realm holds
\* its zone's gateway address, neither by allocate_address_for nor by
\* allocate_reserved with a reserved_ip equal to the gateway, and the
\* IFCONFIG_IP written for a realm never equals its IFCONFIG_GW.
NoRealmHoldsGateway ==
    \A r \in Realms : allocations[r] # Gateway /\ ~AddressIsGateway(r)

\* C40 (amended): allocate_address_for never assigns the gateway; a realm
\* holds the gateway address only when its reserved_ip is the gateway, and
\* only then does the IFCONFIG_IP written for it equal its IFCONFIG_GW.
GatewayHeldOnlyByReservation ==
    \A r \in Realms :
        allocations[r] = Gateway \/ AddressIsGateway(r)
            => config[r].reserved_ip = Gateway

\* A realm without reserved address was started while no address was in use,
\* the gateway's neither: it was given the address after the gateway's.
DynamicRealmSkipsGateway ==
    \E w \in StartWorkers :
        LET r == worker[w].realm IN
        /\ Done(w) /\ worker[w].result = "ok"
        /\ config[r].reserved_ip = 0
        /\ \A o \in Realms : worker[w].table[o] = 0
        /\ allocations[r] = Gateway + 1
        /\ nspawn[r].ip = Gateway + 1 /\ nspawn[r].gw = Gateway

====
